---- MODULE Spec2Model ----
(***************************************************************************)
(* Ingestion-and-scoring pipeline of the IPTV hub: the channel store, the  *)
(* source reconciler (SourceProcessor.saveChannels), the test cycle, the   *)
(* stream prober (StreamTester), the quality scorer and the audit trail.   *)
(*                                                                         *)
(* Every route handler is a sequence of steps, one per await: a request is *)
(* suspended at each storage or network call and the handlers of other     *)
(* requests run meanwhile.                                                 *)
(*                                                                         *)
(* Spec       the pipeline: POST /api/channels, test-streams, reset-tests, *)
(*            init, calculate-metrics, clean-database, two requests at once.*)
(* SpecApi    POST /api/channels: arbitrary channel payloads reconciled.   *)
(* SpecSave   saveChannels calls of one source, two of them at once.       *)
(* SpecTrack  update-sources, check-repos, check-and-update, requests to   *)
(*            process-repository from any holder of the key, the tracker.  *)
(* SpecHandlers force-fetch, populate, the push webhook and the job it     *)
(*            posts to process-repository.                                 *)
(* SpecFault  the pipeline with storage calls that fail.                   *)
(* SpecPoll   SSE clients polling the audit trail.                         *)
(* SpecCycles test cycles repeated after one ingestion.                    *)
(* SpecProbe  one StreamTester.testChannel call, one step per await.       *)
(* SpecParse, SpecScore, SpecInspect: calls of the pure functions.         *)
(***************************************************************************)
EXTENDS Integers, Sequences, FiniteSets, TLC

\* ---------------------------------------------------------------- bounds
MaxId == 3          \* channel ids 1..MaxId listed by the repositories
MaxBatch == 2       \* longest incoming batch
MaxOps == 3         \* operations per behaviour of the cron pipeline
MaxLimit == 1       \* largest ?limit= of a test cycle
MaxApiId == 2       \* channel ids 1..MaxApiId in POST payloads
MaxPosts == 2       \* POST /api/channels requests per behaviour

Ids == 1..MaxId
Sources == {"s1", "s2"}
Statuses == {"active", "inactive", "untested"}
NoTime == 0         \* lastTested undefined / last_tested NULL

\* faulty variant: no upper limit is applied
Unclamped(a, b) == b

Min(a, b) == IF a < b THEN a ELSE b

Max(a, b) == IF a > b THEN a ELSE b

\* Array.prototype.slice(0, end): a negative end counts from the end of the array
Slice(array, end) ==
  SubSeq(array, 1, IF end < 0 THEN Max(Len(array) + end, 0) ELSE Min(end, Len(array)))

\* faulty variant: the quotient is cut off instead of rounded
RoundDown(num, den) == num \div den

\* Math.round of the non-negative quotient num / den
Round(num, den) == (2 * num + den) \div (2 * den)

\* ---- Numbers (IEEE 754 double precision)
\* The scorer computes on Numbers, and every operation rounds its exact result
\* to the nearest double. A natural number of any size is a sequence of limbs
\* of 15 bits, least significant first, without a leading zero limb; a
\* positive double is m * 2^e with a mantissa m of exactly 53 bits, and zero
\* has the empty mantissa.
Zero == [m |-> <<>>, e |-> 0]

RECURSIVE BigNorm(_)
BigNorm(a) ==
  IF a = <<>> THEN a
  ELSE IF a[Len(a)] = 0 THEN BigNorm(SubSeq(a, 1, Len(a) - 1)) ELSE a

RECURSIVE BigOf(_)
BigOf(n) == IF n = 0 THEN <<>> ELSE <<n % 32768>> \o BigOf(n \div 32768)

RECURSIVE ToInt(_)
ToInt(a) == IF a = <<>> THEN 0 ELSE a[1] + 32768 * ToInt(Tail(a))

RECURSIVE AddCarry(_, _, _)
AddCarry(a, b, carry) ==
  IF a = <<>> /\ b = <<>> THEN BigOf(carry)
  ELSE LET x == (IF a = <<>> THEN 0 ELSE a[1]) + (IF b = <<>> THEN 0 ELSE b[1]) + carry
       IN <<x % 32768>> \o AddCarry(IF a = <<>> THEN a ELSE Tail(a),
                                   IF b = <<>> THEN b ELSE Tail(b), x \div 32768)

BigAdd(a, b) == AddCarry(a, b, 0)

\* a * d + carry for a limb d
RECURSIVE MulLimb(_, _, _)
MulLimb(a, d, carry) ==
  IF a = <<>> THEN BigOf(carry)
  ELSE LET x == a[1] * d + carry
       IN <<x % 32768>> \o MulLimb(Tail(a), d, x \div 32768)

RECURSIVE BigMul(_, _)
BigMul(a, b) ==
  IF b = <<>> THEN <<>>
  ELSE BigNorm(BigAdd(MulLimb(a, b[1], 0), <<0>> \o BigMul(a, Tail(b))))

\* quotient and remainder of a by d, 0 < d < 32768
RECURSIVE DivLimb(_, _)
DivLimb(a, d) ==
  IF a = <<>> THEN [q |-> <<>>, r |-> 0]
  ELSE LET high == DivLimb(Tail(a), d)
           x == high.r * 32768 + a[1]
       IN [q |-> BigNorm(<<x \div d>> \o high.q), r |-> x % d]

RECURSIVE BigLess(_, _)
BigLess(a, b) ==
  IF Len(a) # Len(b) THEN Len(a) < Len(b)
  ELSE IF a = <<>> THEN FALSE
  ELSE IF a[Len(a)] # b[Len(b)] THEN a[Len(a)] < b[Len(b)]
  ELSE BigLess(SubSeq(a, 1, Len(a) - 1), SubSeq(b, 1, Len(b) - 1))

RECURSIVE BitsOf(_)
BitsOf(x) == IF x = 0 THEN 0 ELSE 1 + BitsOf(x \div 2)

BitLength(a) == IF a = <<>> THEN 0 ELSE 15 * (Len(a) - 1) + BitsOf(a[Len(a)])

ShiftLeft(a, k) ==
  IF a = <<>> THEN a ELSE [i \in 1..(k \div 15) |-> 0] \o MulLimb(a, 2 ^ (k % 15), 0)

ShiftRight(a, k) == DivLimb(SubSeq(a, (k \div 15) + 1, Len(a)), 2 ^ (k % 15)).q

\* the double nearest to n * 2^e, ties to the even mantissa
Nearest(n, e) ==
  LET bits == BitLength(n)
      t == bits - 53
      q == ShiftRight(n, t)
      middle == BigAdd(ShiftLeft(q, t), ShiftLeft(<<1>>, t - 1))
      up == BigLess(middle, n) \/ (middle = n /\ q[1] % 2 = 1)
      m == IF up THEN BigAdd(q, <<1>>) ELSE q
  IN IF n = <<>> THEN Zero
     ELSE IF bits <= 53 THEN [m |-> ShiftLeft(n, 53 - bits), e |-> e - (53 - bits)]
     ELSE IF BitLength(m) = 54 THEN [m |-> ShiftRight(m, 1), e |-> e + t + 1]
     ELSE [m |-> m, e |-> e + t]

ToDouble(n) == Nearest(BigOf(n), 0)

\* x / d for an integer d, 0 < d < 32768: thirty further bits of the quotient
\* and one bit that tells whether a remainder is left
Divide(x, d) ==
  LET division == DivLimb(ShiftLeft(x.m, 30), d)
  IN Nearest(BigAdd(MulLimb(division.q, 2, 0), IF division.r # 0 THEN <<1>> ELSE <<>>),
             x.e - 31)

Times(x, y) == Nearest(BigMul(x.m, y.m), x.e + y.e)

Plus(x, y) ==
  IF x = Zero THEN y
  ELSE IF y = Zero THEN x
  ELSE LET e == IF x.e < y.e THEN x.e ELSE y.e
       IN Nearest(BigAdd(ShiftLeft(x.m, x.e - e), ShiftLeft(y.m, y.e - e)), e)

LessThan(x, y) ==
  IF y = Zero THEN FALSE
  ELSE IF x = Zero THEN TRUE
  ELSE IF x.e # y.e THEN x.e < y.e ELSE BigLess(x.m, y.m)

\* Math.round(x) for 0 <= x < 2^31: the largest integer that is at most x + 1/2
MathRound(x) ==
  IF x = Zero THEN 0
  ELSE IF x.e >= 0 THEN ToInt(ShiftLeft(x.m, x.e))
  ELSE ToInt(ShiftRight(BigAdd(x.m, ShiftLeft(<<1>>, (0 - x.e) - 1)), 0 - x.e))

\* num / den lies midway between two integers
AtHalf(num, den) == (2 * num) % den = 0 /\ ((2 * num) \div den) % 2 = 1

\* Math.round((average(bitrateValues) / 10000) * 100) for the total num of
\* den bitrates. Where the exact quotient is not midway between two integers
\* the double lies on the same side of the midway as the quotient, and the
\* result is the rounding of the quotient; where it is (1450 gives
\* 14.499999999999998), the three operations on doubles decide.
ScaleBitrate(num, den) ==
  IF AtHalf(num, 100 * den)
    THEN MathRound(Times(Divide(Divide(ToDouble(num), den), 10000), ToDouble(100)))
    ELSE Round(num, den * 100)

\* Math.round((maxHeight / 1080) * 100): 621 gives 57.49999999999999
ScaleHeight(maxHeight) ==
  IF AtHalf(100 * maxHeight, 1080)
    THEN MathRound(Times(Divide(ToDouble(maxHeight), 1080), ToDouble(100)))
    ELSE Round(maxHeight * 100, 1080)

\* (successCount / results.length) * 100
UptimePercentage(successCount, length) ==
  Times(Divide(ToDouble(successCount), length), ToDouble(100))

\* the literal of a weight of w hundredths: the double nearest to w / 100
WeightLiteral(w) == Divide(ToDouble(w), 100)

\* uptimePercentage * uptimeWeight + stabilityScore * stabilityWeight +
\* videoQualityScore * qualityWeight + geoAvailabilityScore * geoWeight
calculatedScore(uptimePercentage, stability, video, geo, weights) ==
  Plus(Plus(Plus(Times(uptimePercentage, WeightLiteral(weights[1])),
                 Times(ToDouble(stability), WeightLiteral(weights[2]))),
            Times(ToDouble(video), WeightLiteral(weights[3]))),
       Times(ToDouble(geo), WeightLiteral(weights[4])))

\* Math.round(calculatedScore) for successCount successes among length
\* results and the three integer scores: the rounding of the exact weighted
\* sum unless that sum is midway between two integers (8 successes of 25
\* with the scores 77, 67 and 67 give 55.49999999999999)
RoundWeighted(successCount, length, stability, video, geo, weights) ==
  LET sum == weights[1] * 100 * successCount
             + length * (weights[2] * stability + weights[3] * video
                         + weights[4] * geo)
  IN IF AtHalf(sum, 100 * length)
       THEN MathRound(calculatedScore(UptimePercentage(successCount, length),
                                      stability, video, geo, weights))
       ELSE Round(sum, 100 * length)

RECURSIVE Gcd(_, _)
Gcd(a, b) == IF b = 0 THEN a ELSE Gcd(b, a % b)

\* an exact non-negative fraction, in lowest terms
Frac(num, den) == LET g == Gcd(num, den) IN [num |-> num \div g, den |-> den \div g]

\* ---------------------------------------------------------------- state
VARIABLES
  channels,           \* table channels: id -> row
  testResults,        \* table test_results: sequence of rows, oldest first
  qualityMetrics,     \* table quality_metrics: channel id -> row
  repositoryUpdates,  \* table repository_updates: sequence of rows, oldest first
  clock,              \* wall clock (new Date()), ticks with every operation
  last,               \* the operation that ended last, its inputs and locals
  pre,                \* the tables as the last operation found them
  probe,              \* the StreamTester.testChannel call in progress
  call,               \* the last call of a pure function: its arguments and result
  missing,            \* history: the channels that saveChannels soft-deleted and no
                      \* batch has listed since, and whether the try block of a test
                      \* loop has patched them active since
  jobs,               \* the requests in progress, between their awaits
  tracker,            \* table repositories, and the commits of the upstream repositories
  sse                 \* the SSE clients of GET /api/jobs/process-repository

vars == <<channels, testResults, qualityMetrics, repositoryUpdates, clock, last,
          pre, probe, call, missing, jobs, tracker, sse>>

store == <<channels, testResults, qualityMetrics, repositoryUpdates, clock, last, pre,
           missing, jobs, tracker, sse>>

\* ------------------------------------------------------------------ URLs
\* A URL is a sequence of text pieces; String.includes looks inside every piece.
Contains(piece, needle) ==
  \/ piece = needle
  \/ piece = ".m3u8" /\ needle = ".m3u"

Includes(url, needle) == \E k \in DOMAIN url : Contains(url[k], needle)

Extension(i) == IF i % 3 = 1 THEN ".m3u8" ELSE IF i % 3 = 2 THEN ".ts" ELSE ".m3u"

Url(i) == <<"http://host/", ToString(i), Extension(i)>>

AltUrl(i) == <<"http://mirror/", ToString(i), ".mp4">>

\* a plain media file below a directory whose name carries a playlist extension
PathUrl(i) == <<"http://host/", "live", ".m3u8", "/", ToString(i), ".ts">>

\* ------------------------------------------------------- channel records
Channel(id, name, url, status, source, qualityScore, lastTested) ==
  [id |-> id, name |-> name, url |-> url, country |-> "US", category |-> "news",
   qualityScore |-> qualityScore, status |-> status, lastTested |-> lastTested,
   source |-> source]

\* buildChannel: what parseM3U returns for the playlist entry of channel i
buildChannel(i, source) == Channel(i, "n1", Url(i), "untested", source, 0, NoTime)

\* the channels of the .m3u files fetched from one repository, in file order
RepositoryBatches(source) ==
  UNION {[1..n -> {buildChannel(i, source) : i \in Ids}] : n \in 1..MaxBatch}

\* a POST /api/channels payload entry: the parser's record with one field changed
ApiItems ==
  UNION {{Channel(i, "n1", Url(i), "untested", "s1", 0, NoTime),
          Channel(i, "n2", Url(i), "untested", "s1", 0, NoTime),
          Channel(i, "n1", AltUrl(i), "untested", "s1", 0, NoTime),
          Channel(i, "n1", Url(i), "active", "s1", 0, NoTime),
          Channel(i, "n1", Url(i), "untested", "s2", 0, NoTime),
          Channel(i, "n1", Url(i), "untested", "s1", 50, 1)} : i \in 1..MaxApiId}

ApiBatches == UNION {[1..n -> ApiItems] : n \in 0..MaxBatch}

\* ------------------------------------------------------- storage adapter
\* faulty variant: the rows are not filtered by source
getChannelsOfAnySource(tbl, source) == {tbl[i] : i \in DOMAIN tbl}

getChannelsBySource(tbl, source) ==
  {tbl[i] : i \in {j \in DOMAIN tbl : tbl[j].source = source}}

getAllChannels(tbl) == {tbl[i] : i \in DOMAIN tbl}

\* faulty variant: an insert that leaves an existing row as it is
insertChannelIfAbsent(tbl, channel) ==
  [i \in DOMAIN tbl \cup {channel.id} |-> IF i \in DOMAIN tbl THEN tbl[i] ELSE channel]

upsertChannel(tbl, channel) ==
  [i \in DOMAIN tbl \cup {channel.id} |-> IF i = channel.id THEN channel ELSE tbl[i]]

updateChannel(tbl, channelId, updates) ==
  IF channelId \in DOMAIN tbl
    THEN LET row == tbl[channelId]
             Set(f) == IF f \in DOMAIN updates THEN updates[f] ELSE row[f]
         IN [tbl EXCEPT ![channelId] =
               [id |-> row.id, name |-> Set("name"), url |-> Set("url"),
                country |-> Set("country"), category |-> Set("category"),
                qualityScore |-> Set("qualityScore"), status |-> Set("status"),
                lastTested |-> Set("lastTested"), source |-> Set("source")]]
    ELSE tbl

\* the row of test_results that holds a result; its id comes from the database
TestResultRow(result, id) ==
  [id |-> id, channelId |-> result.channelId, status |-> result.status,
   bitrateKbps |-> result.bitrateKbps, resolution |-> result.resolution,
   testedAt |-> result.testedAt, region |-> result.region]

saveTestResult(results, result, id) == Append(results, TestResultRow(result, id))

\* order('tested_at', { ascending: false }): the latest row first; rows of one
\* time come in the order of the table
RECURSIVE NewestFirst(_)
NewestFirst(rows) ==
  IF rows = <<>> THEN <<>>
  ELSE LET k == CHOOSE i \in DOMAIN rows :
                  /\ \A j \in DOMAIN rows : rows[j].testedAt <= rows[i].testedAt
                  /\ \A j \in 1..(i - 1) : rows[j].testedAt < rows[i].testedAt
       IN <<rows[k]>> \o NewestFirst(SubSeq(rows, 1, k - 1) \o SubSeq(rows, k + 1, Len(rows)))

getTestResults(results, channelId) ==
  NewestFirst(SelectSeq(results, LAMBDA r : r.channelId = channelId))

\* faulty variant: the row keeps the uptime as the scorer returned it
saveQualityMetricsExact(tbl, channelId, metrics) ==
  [i \in DOMAIN tbl \cup {channelId} |-> IF i = channelId THEN metrics ELSE tbl[i]]

\* The uptime written to a NUMERIC(5,2) column, in hundredths. The client
\* sends the shortest decimal text that reads back as the double, and the
\* column rounds the text to hundredths, halves upwards: the text reaches the
\* midway below h hundredths exactly when the double is not less than the
\* double nearest to that midway (23 of 160 is sent as 14.374999999999998).
Hundredths(value) ==
  LET h == Round(100 * value.num, value.den)
      ratio == Frac(value.num, 100 * value.den)
  IN IF AtHalf(100 * value.num, value.den)
          /\ LessThan(UptimePercentage(ratio.num, ratio.den),
                      Divide(ToDouble(2 * h - 1), 200))
       THEN h - 1
       ELSE h

\* a value written to a NUMERIC(5,2) column: rounded to hundredths
Numeric52(value) == Frac(Hundredths(value), 100)

\* the row of quality_metrics that holds a record of the scorer: the scores
\* are integers, the uptime is not
QualityMetricsRow(metrics) ==
  [metrics EXCEPT !.uptimePercentage = Numeric52(@)]

saveQualityMetrics(tbl, channelId, metrics) ==
  [i \in DOMAIN tbl \cup {channelId} |->
     IF i = channelId THEN QualityMetricsRow(metrics) ELSE tbl[i]]

\* the row gets a fresh id from the database
appendRepositoryUpdate(log, update, id) ==
  Append(log, [id |-> id, repository |-> update.repository,
               timestamp |-> update.timestamp,
               message |-> update.message, channelsAdded |-> update.channelsAdded,
               channelsUpdated |-> update.channelsUpdated,
               channelsRemoved |-> update.channelsRemoved, processed |-> FALSE])

\* getUnprocessedRepositoryUpdates, and the ids clearUpdates selects
Unprocessed(log) == {log[k].id : k \in {i \in DOMAIN log : ~log[i].processed}}

\* faulty variant: the rows are deleted instead of flagged
deleteProcessedRepositoryUpdates(log, ids) ==
  SelectSeq(log, LAMBDA u : u.id \notin ids)

\* update ... set processed = true ... in('id', ids)
markRepositoryUpdatesAsProcessed(log, ids) ==
  [k \in DOMAIN log |->
     IF log[k].id \in ids THEN [log[k] EXCEPT !.processed = TRUE] ELSE log[k]]

\* delete().in(idColumn, ids) of clean-database, for each of the tables; the
\* rows of test_results and quality_metrics go with their channel (ON DELETE
\* CASCADE)
deleteTestResults(results, ids) == SelectSeq(results, LAMBDA r : r.id \notin ids)

deleteQualityMetrics(tbl, ids) == [i \in DOMAIN tbl \ ids |-> tbl[i]]

deleteChannels(tbl, ids) == [i \in DOMAIN tbl \ ids |-> tbl[i]]

cascadeTestResults(results, ids) == SelectSeq(results, LAMBDA r : r.channelId \notin ids)

deleteRepositoryUpdates(log, ids) == SelectSeq(log, LAMBDA u : u.id \notin ids)

deleteRepositories(tbl, ids) == [s \in DOMAIN tbl \ ids |-> tbl[s]]

\* ------------------------------------------------------- manifest model
\* A resolution text. Res(w, h) is "WxH", the numbers written without leading
\* zeros, and ResX(w, h) is "WXH", written with a capital X, which the patterns
\* of the inspector accept (they ignore case). Unknown is the text "unknown";
\* it is no WxH text, so that "0x0" is Res(0, 0) and differs from it.
Res(w, h) == [w |-> w, h |-> h, x |-> "x"]
ResX(w, h) == [w |-> w, h |-> h, x |-> "X"]
Unknown == [w |-> 0, h |-> 0, x |-> "unknown"]

\* A height token "<3-4 digits>p" of a per-entry line, and the same written
\* with a capital P, as in 1080P.
Pixels(h) == [w |-> 0, h |-> h, x |-> "p"]
PixelsP(h) == [w |-> 0, h |-> h, x |-> "P"]

\* A manifest line, by what the inspector's patterns see in it:
\*   tag        "STREAM-INF" (#EXT-X-STREAM-INF:), "EXTINF" (#EXTINF:) or "other"
\*   bandwidth  the digits after the first BANDWIDTH=, -1 when there is none
\*   tokens     the pieces of the line that the resolution pattern of its tag can
\*              match, from left to right as they are written: the WxH after
\*              RESOLUTION= (STREAM-INF), the height tokens and the WxH tokens
\*              (EXTINF); String.match returns the leftmost one
VariantLine(bandwidth, tokens) ==
  [tag |-> "STREAM-INF", bandwidth |-> bandwidth, tokens |-> tokens]
EntryLine(tokens) == [tag |-> "EXTINF", bandwidth |-> -1, tokens |-> tokens]
OtherLine == [tag |-> "other", bandwidth |-> -1, tokens |-> <<>>]

\* the lines of the bodies the probes read: among them a bandwidth that rounds
\* to 0 kbps, a per-entry line that names 0x0, and one that names 1080p before
\* 640x360
ManifestLines ==
  {OtherLine,
   VariantLine(5000000, <<Res(1920, 1080)>>),
   VariantLine(1499, <<>>),
   VariantLine(499, <<>>),
   VariantLine(-1, <<Res(1280, 720)>>),
   EntryLine(<<Res(640, 360)>>),
   EntryLine(<<Pixels(1080)>>),
   EntryLine(<<Pixels(576)>>),
   EntryLine(<<Res(0, 0)>>),
   EntryLine(<<Pixels(1080), Res(640, 360)>>)}

MaxLines == 2       \* longest manifest body, in lines

Bodies == UNION {[1..n -> ManifestLines] : n \in 0..MaxLines}

\* ---------------------------------------------------- manifest inspector
HeightToResolution(height, resolution) ==
  IF height = 720 THEN Res(1280, 720)
  ELSE IF height = 1080 THEN Res(1920, 1080)
  ELSE IF height = 480 THEN Res(854, 480)
  ELSE IF height = 360 THEN Res(640, 360)
  ELSE IF height = 240 THEN Res(426, 240)
  ELSE resolution

\* faulty variant: every resolution gets the default estimate
EstimateBitrateFlat(resolution) == 1000

\* the power of ten with one digit more than a
RECURSIVE PowerOfTenAbove(_)
PowerOfTenAbove(a) == IF a < 10 THEN 10 ELSE 10 * PowerOfTenAbove(a \div 10)

\* the digits of h start with the digits of b
RECURSIVE StartsWithDigits(_, _)
StartsWithDigits(h, b) == h = b \/ (h > b /\ StartsWithDigits(h \div 10, b))

\* resolution.includes('AxB'): the text holds AxB when its first number ends
\* with A, its x is a small one and its second number starts with B
IncludesResolution(resolution, a, b) ==
  /\ resolution.x = "x"
  /\ resolution.w % PowerOfTenAbove(a) = a
  /\ StartsWithDigits(resolution.h, b)

EstimateBitrate(resolution) ==
  IF IncludesResolution(resolution, 1920, 1080) THEN 5000
  ELSE IF IncludesResolution(resolution, 1280, 720) THEN 2500
  ELSE IF IncludesResolution(resolution, 854, 480) THEN 1500
  ELSE IF IncludesResolution(resolution, 640, 360) THEN 800
  ELSE IF IncludesResolution(resolution, 426, 240) THEN 400
  ELSE 1000

\* faulty variant: the quotient is cut off
ToKbpsTruncated(bandwidth) == bandwidth \div 1000

\* Math.round(parseInt(bandwidthMatch[1], 10) / 1000)
ToKbps(bandwidth) == Round(bandwidth, 1000)

\* line.match(pattern): the leftmost piece that matches, Unknown for null
FirstMatch(line) == IF line.tokens = <<>> THEN Unknown ELSE Head(line.tokens)

\* one iteration of the loop of parsePlaylistInfo. In a per-entry line
\* res.includes('x') and res.includes('p') look for the small letter: a match
\* written with a capital X or P changes nothing, and neither does a height
\* that is none of the five.
ScanLine(info, line) ==
  IF line.tag = "STREAM-INF"
    THEN [bitrateKbps |-> IF line.bandwidth >= 0 THEN ToKbps(line.bandwidth)
                          ELSE info.bitrateKbps,
          resolution |-> IF line.tokens # <<>> THEN FirstMatch(line)
                         ELSE info.resolution]
  ELSE IF line.tag = "EXTINF"
    THEN LET res == FirstMatch(line)
             resolution == IF res.x = "x" THEN res
                           ELSE IF res.x = "p"
                             THEN HeightToResolution(res.h, info.resolution)
                           ELSE info.resolution
         IN [bitrateKbps |-> IF info.bitrateKbps = 0 /\ resolution # Unknown
                               THEN EstimateBitrate(resolution)
                               ELSE info.bitrateKbps,
             resolution |-> resolution]
  ELSE info

RECURSIVE ScanLines(_, _)
ScanLines(info, lines) ==
  IF lines = <<>> THEN info ELSE ScanLines(ScanLine(info, Head(lines)), Tail(lines))

DefaultBitrateKbps == 1000
DefaultResolution == Res(1280, 720)

\* faulty variant: what the scan found is returned without the defaults
parsePlaylistInfoAsFound(playlistContent) ==
  ScanLines([bitrateKbps |-> 0, resolution |-> Unknown], playlistContent)

parsePlaylistInfo(playlistContent) ==
  LET info == ScanLines([bitrateKbps |-> 0, resolution |-> Unknown], playlistContent)
  IN [bitrateKbps |-> IF info.bitrateKbps = 0 THEN DefaultBitrateKbps
                      ELSE info.bitrateKbps,
      resolution |-> IF info.resolution = Unknown THEN DefaultResolution
                     ELSE info.resolution]

\* ---------------------------------------------------------- the network
\* What one fetch() does: it resolves with a status code, rejects with a network
\* error, or is aborted by the timeout before the response headers arrive.
StatusCodes == {200, 204, 302, 399, 400, 404, 500, 199}

Responses == [kind : {"response"}, status : StatusCodes]
Rejections == [kind : {"error", "timeout"}, status : {0}]
FetchOutcomes == Responses \cup Rejections

\* What response.text() does: it resolves with the body or rejects, with a network
\* error or because the request was aborted.
TextOutcomes ==
  [kind : {"text"}, lines : Bodies] \cup [kind : {"error", "timeout"}, lines : {<<>>}]

\* -------------------------------------------------------- stream prober
DefaultRegion == "local"
Regions == {"undefined", "eu", "us"}

RegionOf(options) == IF options.region = "undefined" THEN DefaultRegion ELSE options.region

\* faulty variant: every status below 400 counts as available
checkStreamAvailabilityNoFloor(head) ==
  IF head.kind = "response" THEN [success |-> head.status < 400] ELSE [success |-> FALSE]

\* checkStreamAvailability, after its fetch settled
checkStreamAvailability(head) ==
  IF head.kind = "response"
    THEN [success |-> head.status >= 200 /\ head.status < 400]
    ELSE [success |-> FALSE]

LooksLikePlaylist(url) == Includes(url, ".m3u8") \/ Includes(url, ".m3u")

PlaylistFailure == [success |-> FALSE, bitrateKbps |-> 0, resolution |-> Unknown]

ResponseOk(status) == status >= 200 /\ status <= 299

\* testPlaylistStream, after its fetch settled with a rejection or a non-ok response
testPlaylistStreamFetched(get) == PlaylistFailure

\* faulty variant: a body that yields nothing is a failure
testPlaylistStreamReadStrict(text) ==
  LET found == ScanLines([bitrateKbps |-> 0, resolution |-> Unknown], text.lines)
  IN IF text.kind = "text" /\ found.bitrateKbps # 0 /\ found.resolution # Unknown
       THEN [success |-> TRUE, bitrateKbps |-> found.bitrateKbps,
             resolution |-> found.resolution]
       ELSE PlaylistFailure

\* testPlaylistStream, after response.text() settled
testPlaylistStreamRead(text) ==
  IF text.kind = "text"
    THEN LET streamInfo == parsePlaylistInfo(text.lines)
         IN [success |-> TRUE, bitrateKbps |-> streamInfo.bitrateKbps,
             resolution |-> streamInfo.resolution]
    ELSE PlaylistFailure

TestResult(channel, status, bitrateKbps, resolution, testedAt, region) ==
  [channelId |-> channel.id, status |-> status, bitrateKbps |-> bitrateKbps,
   resolution |-> resolution, testedAt |-> testedAt, region |-> region]

\* faulty variant: the failure result carries the default region
UnavailableResultLocal(channel, testedAt, region) ==
  TestResult(channel, "failure", 0, Unknown, testedAt, DefaultRegion)

\* the three return statements of the try block of testChannel
UnavailableResult(channel, testedAt, region) ==
  TestResult(channel, "failure", 0, Unknown, testedAt, region)

PlaylistResult(channel, playlistResult, testedAt, region) ==
  TestResult(channel, IF playlistResult.success THEN "success" ELSE "failure",
             playlistResult.bitrateKbps, playlistResult.resolution, testedAt, region)

AccessibleResult(channel, testedAt, region) ==
  TestResult(channel, "success", 0, Unknown, testedAt, region)

\* testChannel from call to return, the network behaving as net says
testChannel(channel, options, net, testedAt) ==
  IF ~checkStreamAvailability(net.head).success
    THEN UnavailableResult(channel, testedAt, RegionOf(options))
  ELSE IF LooksLikePlaylist(channel.url)
    THEN PlaylistResult(channel,
           IF net.get.kind = "response" /\ ResponseOk(net.get.status)
             THEN testPlaylistStreamRead(net.text)
             ELSE testPlaylistStreamFetched(net.get),
           testedAt, RegionOf(options))
  ELSE AccessibleResult(channel, testedAt, RegionOf(options))

\* -------------------------------------------------------- quality scorer
RECURSIVE Sum(_)
Sum(values) == IF values = <<>> THEN 0 ELSE Head(values) + Sum(Tail(values))

SetMax(S) == IF S = {} THEN 0 ELSE CHOOSE x \in S : \A y \in S : y <= x

\* the number res.match(/(\d+)x\d+/) captures, 0 when the text does not match
CapturedHeight(resolution) == IF resolution.x = "x" THEN resolution.w ELSE 0

\* the weights, in hundredths
uptimeWeight == 40
stabilityWeight == 25
qualityWeight == 20
geoWeight == 15

calculateQualityMetrics(results, calculatedAt) ==
  LET n == Len(results)
      successCount == Len(SelectSeq(results, LAMBDA r : r.status = "success"))
      bitrateSum == Sum([k \in 1..n |-> results[k].bitrateKbps])
      stabilityScore == IF n > 0 THEN Min(100, ScaleBitrate(bitrateSum, n)) ELSE 0
      resolutions == {results[k].resolution : k \in 1..n}
      maxHeight == SetMax({CapturedHeight(r) : r \in resolutions})
      videoQualityScore == IF maxHeight > 0 THEN Min(100, ScaleHeight(maxHeight)) ELSE 0
      regions == {results[k].region : k \in 1..n}
      geoAvailabilityScore ==
        IF regions # {} THEN Min(100, Round(Cardinality(regions) * 100, 3)) ELSE 0
      den == IF n > 0 THEN n ELSE 1
  IN [uptimePercentage |-> Frac(100 * successCount, den),
      stabilityScore |-> stabilityScore,
      videoQualityScore |-> videoQualityScore,
      geoAvailabilityScore |-> geoAvailabilityScore,
      overallScore |-> RoundWeighted(successCount, den, stabilityScore,
                                     videoQualityScore, geoAvailabilityScore,
                                     <<uptimeWeight, stabilityWeight, qualityWeight,
                                       geoWeight>>),
      calculatedAt |-> calculatedAt]

\* calculateQualityScore of the routes
calculateQualityScore(result) ==
  IF result.status = "failure" THEN 0
  ELSE IF result.bitrateKbps > 0 THEN Min(100, ScaleBitrate(result.bitrateKbps, 1))
  ELSE 0

\* ------------------------------------------------------------ reconciler
IncomingIds(incoming) == {incoming[k].id : k \in DOMAIN incoming}

\* first loop of saveChannels: the counters
IsAdded(existing, channel) == \A s \in existing : s.id # channel.id

\* faulty variant: a difference in any field counts as an update
IsUpdatedAnyField(existing, channel) ==
  \E s \in existing : s.id = channel.id /\ s # channel

IsUpdated(existing, channel) ==
  \E s \in existing : s.id = channel.id
                      /\ (s.url # channel.url \/ s.status # channel.status)

CountAdded(existing, incoming) ==
  Cardinality({k \in DOMAIN incoming : IsAdded(existing, incoming[k])})

CountUpdated(existing, incoming) ==
  Cardinality({k \in DOMAIN incoming : IsUpdated(existing, incoming[k])})

\* faulty variant: a channel that is inactive already is not counted again
RemovedChannelsStillActive(existing, incoming) ==
  {c \in existing : c.id \notin IncomingIds(incoming) /\ c.status # "inactive"}

\* second loop of saveChannels: existing channels absent from the batch
RemovedChannels(existing, incoming) ==
  {c \in existing : c.id \notin IncomingIds(incoming)}

\* faulty variant: the absent channel keeps its status
SoftDeleteSkipped(channel) == channel

SoftDelete(channel) == [channel EXCEPT !.status = "inactive"]

\* faulty variant: the row of the absent channel is deleted
DeleteAbsent(tbl, channel) == [i \in DOMAIN tbl \ {channel.id} |-> tbl[i]]

\* one pass of the second loop: the row as it was read, with status inactive
RemoveAbsent(tbl, channel) == upsertChannel(tbl, SoftDelete(channel))

AuditMessage(incoming) == <<"Processed ", Len(incoming), " channels">>

\* the table channels after the two loops of saveChannels(source, incoming)
\* when no other request writes between its read and its last upsert
RECURSIVE UpsertIncoming(_, _)
UpsertIncoming(tbl, incoming) ==
  IF incoming = <<>> THEN tbl
  ELSE UpsertIncoming(upsertChannel(tbl, Head(incoming)), Tail(incoming))

RECURSIVE UpsertRemoved(_, _)
UpsertRemoved(tbl, removed) ==
  IF removed = {} THEN tbl
  ELSE LET c == CHOOSE x \in removed : TRUE
       IN UpsertRemoved(RemoveAbsent(tbl, c), removed \ {c})

SavedAlone(tbl, source, incoming) ==
  UpsertRemoved(UpsertIncoming(tbl, incoming),
                RemovedChannels(getChannelsBySource(tbl, source), incoming))

\* ---------------------------------------------------------------- init
EmptyTables == [channels |-> << >>, testResults |-> << >>, qualityMetrics |-> << >>,
                repositoryUpdates |-> << >>]

Tables == [channels |-> channels, testResults |-> testResults,
           qualityMetrics |-> qualityMetrics, repositoryUpdates |-> repositoryUpdates]

NoResult == [channelId |-> 0, status |-> "none", bitrateKbps |-> 0,
             resolution |-> Unknown, testedAt |-> NoTime, region |-> "none"]

NoPeer == [source |-> "none", incoming |-> <<>>, others |-> {}]

\* no row
NoChannel == [id |-> 0, name |-> "none", url |-> <<>>, country |-> "none",
              category |-> "none", qualityScore |-> 0, status |-> "none",
              lastTested |-> NoTime, source |-> "none"]

\* A request, or the operation of a request (one saveChannels call, one
\* checkForUpdates call, one test loop, one pass over the tables): where it
\* stands (pc), its arguments and its local variables. The fields owed, others,
\* found, softDeleted, appended, peer, base and now are histories: the repositories
\* that were tracked when checkForUpdates read the table and whose latest
\* commit was not ingested when it returned, the kinds of the other operations
\* that wrote a table since this one read, the tables as it found them, the
\* rows its second loop overwrote, the audit row it appended, the saveChannels
\* call that ended while it ran, the table channels as the first of the two
\* found it, and the time at which the call it awaited last returned.
NoOp == [n |-> 0, route |-> "none", kind |-> "none", pc |-> "done", failed |-> FALSE,
         source |-> "none", incoming |-> <<>>, existing |-> {}, k |-> 1,
         absent |-> {}, added |-> 0, updated |-> 0, removed |-> 0, repeat |-> FALSE,
         limit |-> 0, queue |-> <<>>, targets |-> <<>>, result |-> NoResult,
         results |-> <<>>, probes |-> <<>>, fault |-> "none", faults |-> <<>>,
         changed |-> {}, todo |-> <<>>, loaded |-> << >>, commit |-> 0, ids |-> {},
         rows |-> <<>>, owed |-> {}, others |-> {}, found |-> EmptyTables, softDeleted |-> {},
         appended |-> 0, peer |-> NoPeer, base |-> << >>, now |-> NoTime]

ProbeIdle == [pc |-> "idle", requests |-> <<>>]

NoCall == [fn |-> "none"]

\* the requests the server is handling at once
JobIds == {1, 2}

\* no request in progress; overlaps counts the requests that arrived while
\* another one was in progress
NoJobs == [n |-> 0, overlaps |-> 0, calls |-> [j \in JobIds |-> NoOp]]

\* table repositories empty; upstream every repository is at its first commit
Untracked == [repositories |-> << >>,
              head |-> [s \in Sources |-> 1],
              ingested |-> [s \in Sources |-> 0],
              posted |-> {}]

\* the poll callbacks that can be in progress at once
PollIds == {1, 2}

NoPoll == [pc |-> "idle", client |-> 0, updates |-> {}, ids |-> {}]

\* no SSE client connected
NoClients == [clients |-> << >>, polls |-> [p \in PollIds |-> NoPoll], sent |-> {}]

Init ==
  /\ channels = << >>
  /\ testResults = << >>
  /\ qualityMetrics = << >>
  /\ repositoryUpdates = << >>
  /\ clock = 1
  /\ last = NoOp
  /\ pre = EmptyTables
  /\ probe = ProbeIdle
  /\ call = NoCall
  /\ missing = << >>
  /\ jobs = NoJobs
  /\ tracker = Untracked
  /\ sse = NoClients

\* ------------------------------------------------------------- requests
\* Every route handler runs up to its next await and is then suspended; the
\* handlers of other requests run meanwhile. An action below is one such
\* stretch of one handler: it ends with the storage or network call that is
\* awaited, and the value read by that call is in the state after the action.
Job(j) == jobs.calls[j]

\* gen_random_uuid(): an id that no row of test_results has and that no request
\* holds
FreshId ==
  SetMax({testResults[k].id : k \in DOMAIN testResults}
         \cup UNION {Job(j).ids : j \in {i \in JobIds : /\ Job(i).kind = "clean"
                                                           /\ Job(i).pc = "delete"
                                                           /\ Head(Job(i).todo) = "test_results"}}) + 1

InFlight == {j \in JobIds : Job(j).pc # "done"}

\* The stretches that read the clock (new Date()) before they issue their call:
\* the one that builds the audit row, the start of testChannel, the scorer and
\* the catch block of the test loop, and the passes of testAndEnrichChannels. The stretch runs when the call awaited
\* before has returned and before its own call takes effect, so what it reads
\* lies between the two.
ClockReaders == {"audit", "probe", "metrics", "catch", "enrich", "update"}

Awaited(next) ==
  [next EXCEPT !.now = IF next.pc \in ClockReaders THEN clock ELSE NoTime]

\* the times new Date() can return in the stretch of request r
Now(r) == r.now..clock

\* the requests after a step of slot j (0: a poll callback of an SSE client);
\* a step that writes a table is noted by the other requests in progress
Slots(j, kind, next, wrote) ==
  [i \in JobIds |->
     IF i = j THEN Awaited(next)
     ELSE IF wrote /\ Job(i).pc # "done"
            THEN [Job(i) EXCEPT !.others = @ \cup {kind}]
            ELSE Job(i)]

\* what is kept of an operation when it has ended
Summary(r) ==
  [r EXCEPT !.pc = "done", !.found = EmptyTables, !.queue = <<>>, !.existing = {},
            !.absent = {}, !.result = NoResult, !.loaded = << >>, !.todo = <<>>,
            !.rows = <<>>, !.ids = {}, !.k = 1, !.now = NoTime]

\* what a request keeps from one of its operations to the next
Rest(r, todo) ==
  IF todo = <<>> THEN NoOp
  ELSE [NoOp EXCEPT !.n = r.n, !.route = r.route, !.pc = "fetch", !.todo = todo]

\* the operation of slot j goes on
Goes(j, next, wrote) ==
  /\ jobs' = [jobs EXCEPT !.calls = Slots(j, Job(j).kind, next, wrote)]
  /\ last' = IF wrote THEN [last EXCEPT !.others = @ \cup {Job(j).kind}] ELSE last
  /\ pre' = pre

\* the operation of slot j ends as `done`, and its request goes on as `next`
Ends(j, done, next, wrote) ==
  /\ jobs' = [jobs EXCEPT !.calls = Slots(j, Job(j).kind, next, wrote)]
  /\ last' = Summary(done)
  /\ pre' = done.found

\* a step whose record says whether the operation, and the request, has ended
Moves(j, next, wrote) ==
  IF next.pc = "done" THEN Ends(j, next, NoOp, wrote) ELSE Goes(j, next, wrote)

\* a request arrives and runs up to its first await
Starts(j, next) ==
  LET begun == [next EXCEPT !.n = jobs.n + 1]
  IN /\ Job(j).pc = "done"
     /\ jobs' = [n |-> jobs.n + 1,
                 overlaps |-> IF InFlight = {} THEN jobs.overlaps ELSE jobs.overlaps + 1,
                 calls |-> Slots(j, begun.kind,
                                 IF begun.pc = "done" THEN NoOp ELSE begun, FALSE)]
     /\ IF begun.pc = "done"
          THEN last' = Summary(begun) /\ pre' = begun.found
          ELSE UNCHANGED <<last, pre>>

\* ---- SourceProcessor.saveChannels(source, incomingChannels)
\* const existing = await this.getChannelsBySource(source): the call after
\* its read. The counters of the two loops depend on the rows read only.
SaveCall(r, source, incoming) ==
  LET existing == getChannelsBySource(channels, source)
      absent == RemovedChannels(existing, incoming)
      reading == {i \in JobIds : Job(i).pc # "done" /\ Job(i).kind = "save"}
  IN [r EXCEPT !.kind = "save",
               !.pc = IF incoming # <<>> THEN "upsert"
                      ELSE IF absent # {} THEN "remove" ELSE "audit",
               !.source = source, !.incoming = incoming, !.existing = existing,
               !.k = 1, !.absent = absent,
               !.added = CountAdded(existing, incoming),
               !.updated = CountUpdated(existing, incoming),
               !.removed = Cardinality(absent),
               !.repeat = (last.kind = "save" /\ ~last.failed /\ last.source = source
                           /\ last.incoming = incoming /\ last.others = {}),
               !.found = Tables,
               !.base = IF reading = {} THEN channels
                        ELSE Job(CHOOSE i \in reading : TRUE).base]

\* one pass of the first loop: await upsertChannel(channel)
UpsertNext(j) ==
  LET r == Job(j)
  IN /\ r.kind = "save" /\ r.pc = "upsert"
     /\ channels' = upsertChannel(channels, r.incoming[r.k])
     /\ missing' = [i \in DOMAIN missing \ {r.incoming[r.k].id} |-> missing[i]]
     /\ Goes(j, [r EXCEPT !.k = @ + 1,
                          !.pc = IF r.k < Len(r.incoming) THEN "upsert"
                                 ELSE IF r.absent # {} THEN "remove" ELSE "audit"],
             TRUE)
     /\ UNCHANGED <<testResults, qualityMetrics, repositoryUpdates, clock,
                    tracker, sse, probe, call>>

\* the rows of a set that come first when it is read ordered by quality_score
\* descending
Foremost(rows) == {c \in rows : \A d \in rows : d.qualityScore <= c.qualityScore}

\* the row that is stored for a channel
Stored(tbl, id) == IF id \in DOMAIN tbl THEN tbl[id] ELSE NoChannel

\* one pass of the second loop over the rows read, for an absent channel
RemoveNext(j, channel) ==
  LET r == Job(j)
  IN /\ r.kind = "save" /\ r.pc = "remove"
     /\ channel \in Foremost(r.absent)
     /\ channels' = RemoveAbsent(channels, channel)
     /\ missing' = [i \in DOMAIN missing \cup {channel.id} |->
                      IF i = channel.id THEN FALSE ELSE missing[i]]
     /\ Goes(j, [r EXCEPT !.absent = @ \ {channel},
                          !.softDeleted = @ \cup {[before |-> Stored(channels, channel.id),
                                                   after |-> Stored(channels', channel.id)]},
                          !.pc = IF r.absent = {channel} THEN "audit" ELSE "remove"],
             TRUE)
     /\ UNCHANGED <<testResults, qualityMetrics, repositoryUpdates, clock,
                    tracker, sse, probe, call>>

\* the populate handler that saves the channels and then tests the first of
\* the channels it parsed
EnrichedRoute == "populate-enriched"

\* the routes that fetch the files of a repository and save its channels
FetchRoutes == {"update-sources", "check-and-update", "force-fetch", "populate",
                EnrichedRoute, "process-repository"}

\* the routes whose loop over the repositories has a try block around a pass
RepositoryLoops == {"check-and-update", "force-fetch", "populate", EnrichedRoute}

\* the routes that call testChannelsForSource when saveChannels has returned
TestedRoutes == {"check-and-update", "populate", "process-repository"}

EnrichLimit == 50        \* const testLimit = 50

\* const channelsToTest = channels.slice(0, testLimit): testAndEnrichChannels
\* before its first probe
EnrichCall(r) ==
  LET channelsToTest == Slice(r.incoming, EnrichLimit)
  IN [NoOp EXCEPT !.n = r.n, !.route = r.route, !.kind = "enrich", !.pc = "enrich",
                  !.source = r.source, !.todo = r.todo, !.queue = channelsToTest,
                  !.targets = [k \in DOMAIN channelsToTest |-> channelsToTest[k].id],
                  !.k = 1, !.found = Tables]

\* how the request goes on when saveChannels has returned
AfterSave(r) ==
  IF r.route \in TestedRoutes
    THEN [NoOp EXCEPT !.n = r.n, !.route = r.route, !.pc = "read", !.todo = r.todo]
  ELSE IF r.route = EnrichedRoute THEN EnrichCall(r)
  ELSE IF r.route \in FetchRoutes THEN Rest(r, Tail(r.todo))
  ELSE NoOp

\* the saveChannels calls in progress hear of the call that returns
Heard(j, done) ==
  [i \in JobIds |->
     IF i # j /\ Job(i).pc # "done" /\ Job(i).kind = "save"
       THEN [Job(i) EXCEPT !.others = @ \cup {"save"},
                           !.peer = [source |-> done.source, incoming |-> done.incoming,
                                     others |-> done.others]]
     ELSE IF i # j /\ Job(i).pc # "done"
       THEN [Job(i) EXCEPT !.others = @ \cup {"save"}]
     ELSE IF i = j THEN Awaited(AfterSave(done))
     ELSE Job(i)]

\* saveSourceMetadata and appendRepositoryUpdate, then the call returns; the
\* row carries the time at which it was built
AppendAudit(j, timestamp) ==
  LET r == Job(j)
      done == [r EXCEPT !.repeat = (@ /\ r.others = {}), !.appended = clock]
  IN /\ r.kind = "save" /\ r.pc = "audit"
     /\ timestamp \in Now(r)
     /\ repositoryUpdates' = appendRepositoryUpdate(repositoryUpdates,
            [repository |-> r.source, timestamp |-> timestamp,
             message |-> AuditMessage(r.incoming), channelsAdded |-> r.added,
             channelsUpdated |-> r.updated, channelsRemoved |-> r.removed],
            clock)
     /\ clock' = clock + 1
     /\ tracker' = IF r.route \in FetchRoutes
                     THEN [tracker EXCEPT !.ingested[r.source] = r.commit]
                     ELSE tracker
     /\ jobs' = [jobs EXCEPT !.calls = Heard(j, done)]
     /\ last' = Summary(done)
     /\ pre' = done.found
     /\ UNCHANGED <<channels, testResults, qualityMetrics, missing, sse, probe, call>>

\* ---- POST /api/channels
\* the payload is valid; saveChannels is called and runs up to its read
PostChannels(j, source, items) ==
  /\ Starts(j, SaveCall([NoOp EXCEPT !.route = "post"], source, items))
  /\ UNCHANGED <<channels, testResults, qualityMetrics, repositoryUpdates, clock,
                 missing, tracker, sse, probe, call>>

\* ---- RepositoryTracker.checkForUpdates
\* tracker.repositories is the table repositories (id -> lastCommitSha),
\* tracker.head the latest commit of each upstream repository that a request
\* has seen, and tracker.ingested a history: the commit whose files were last
\* fetched, parsed and saved without an error (a commit without channels has
\* nothing to save).
MaxCommit == 2      \* commits of an upstream repository

\* the repositories of the configuration, in its order
TrackedOrder == <<"s1", "s2">>

\* select('*') on repositories has no order: the rows come in any order
RowOrders(tbl) ==
  {rows \in [1..Cardinality(DOMAIN tbl) -> DOMAIN tbl] :
     \A i, k \in DOMAIN rows : i < k => rows[i] # rows[k]}

upsertRepository(tbl, id, sha) ==
  [s \in DOMAIN tbl \cup {id} |-> IF s = id THEN sha ELSE tbl[s]]

\* const tracked = await this.loadTrackedRepositories(): the call after its
\* read; without a row it goes on as initializeDefaultRepositories
CheckCall(r, tracked) ==
  [r EXCEPT !.kind = "check",
            !.pc = IF tracked = <<>> THEN "find" ELSE "sha",
            !.loaded = tracker.repositories,
            !.todo = IF tracked = <<>> THEN TrackedOrder ELSE tracked,
            !.rows = IF tracked = <<>> THEN TrackedOrder ELSE tracked,
            !.changed = {},
            !.found = Tables]

\* initializeDefaultRepositories, called by a handler that found the table
\* empty
InitializeCall(r) ==
  [r EXCEPT !.kind = "initialize", !.pc = "find", !.loaded = << >>,
            !.todo = TrackedOrder, !.rows = TrackedOrder, !.changed = {},
            !.found = Tables]

\* how the request goes on when checkForUpdates, or
\* initializeDefaultRepositories, has returned: force-fetch reads the table
\* again, the other handlers go through the repositories returned
AfterCheck(r, changed) ==
  IF r.route = "check-repos" THEN NoOp
  ELSE IF r.route = "force-fetch"
    THEN [NoOp EXCEPT !.n = r.n, !.route = r.route, !.pc = "reload"]
  ELSE Rest(r, SelectSeq(r.rows, LAMBDA s : s \in changed))

\* the repositories of the table as it was read whose latest commit, as the
\* call saw it, has not been ingested
Owed(loaded, head) == {s \in DOMAIN loaded : tracker.ingested[s] # head[s]}

\* the loop of checkForUpdates, or of initializeDefaultRepositories, goes to
\* its next repository, or the call returns
NextRepository(j, changed, head, wrote) ==
  LET r == Job(j)
  IN IF Len(r.todo) > 1
       THEN Goes(j, [r EXCEPT !.todo = Tail(@), !.changed = changed,
                              !.pc = IF DOMAIN r.loaded = {} THEN "find" ELSE "sha"],
                 wrote)
       ELSE Ends(j, [r EXCEPT !.changed = changed, !.owed = Owed(r.loaded, head)],
                 AfterCheck(r, changed), wrote)

\* initializeDefaultRepositories: const existing = await getRepositoryById(id)
FindRepository(j) ==
  LET r == Job(j)
  IN /\ r.kind \in {"check", "initialize"} /\ r.pc = "find"
     /\ IF Head(r.todo) \in DOMAIN tracker.repositories
          THEN NextRepository(j, r.changed \cup {Head(r.todo)}, tracker.head, FALSE)
          ELSE Goes(j, [r EXCEPT !.pc = "sha"], FALSE)
     /\ UNCHANGED <<channels, testResults, qualityMetrics, repositoryUpdates, clock,
                    missing, tracker, sse, probe, call>>

\* const latestSha = await this.service.getLatestCommitSha(...): the commits
\* pushed upstream since the repository was looked at are seen
LatestSha(j, latestSha) ==
  LET r == Job(j)
      repo == Head(r.todo)
  IN /\ r.kind \in {"check", "initialize"} /\ r.pc = "sha"
     /\ latestSha >= tracker.head[repo]
     /\ tracker' = [tracker EXCEPT !.head[repo] = latestSha]
     /\ IF DOMAIN r.loaded = {} \/ r.loaded[repo] # latestSha
          THEN Goes(j, [r EXCEPT !.pc = "store", !.commit = latestSha], FALSE)
          ELSE NextRepository(j, r.changed, [tracker.head EXCEPT ![repo] = latestSha],
                              FALSE)
     /\ UNCHANGED <<channels, testResults, qualityMetrics, repositoryUpdates, clock,
                    missing, sse, probe, call>>

\* await upsertRepository(...), and the repository is pushed to the result
StoreSha(j) ==
  LET r == Job(j)
      repo == Head(r.todo)
  IN /\ r.kind \in {"check", "initialize"} /\ r.pc = "store"
     /\ tracker' = [tracker EXCEPT !.repositories = upsertRepository(@, repo, r.commit)]
     /\ NextRepository(j, r.changed \cup {repo}, tracker.head, TRUE)
     /\ UNCHANGED <<channels, testResults, qualityMetrics, repositoryUpdates, clock,
                    missing, sse, probe, call>>

\* ---- cron update-sources, check-repos, check-and-update
\* GET: checkForUpdates is called and runs up to its read
UpdateSources(j, tracked) ==
  /\ Starts(j, CheckCall([NoOp EXCEPT !.route = "update-sources"], tracked))
  /\ UNCHANGED <<channels, testResults, qualityMetrics, repositoryUpdates, clock,
                 missing, tracker, sse, probe, call>>

CheckRepos(j, tracked) ==
  /\ Starts(j, CheckCall([NoOp EXCEPT !.route = "check-repos"], tracked))
  /\ UNCHANGED <<channels, testResults, qualityMetrics, repositoryUpdates, clock,
                 missing, tracker, sse, probe, call>>

CheckAndUpdate(j, tracked) ==
  /\ Starts(j, CheckCall([NoOp EXCEPT !.route = "check-and-update"], tracked))
  /\ UNCHANGED <<channels, testResults, qualityMetrics, repositoryUpdates, clock,
                 missing, tracker, sse, probe, call>>

\* one pass of the loop over the updated repositories, up to the answer of
\* await tracker.fetchUpdatedFiles(repository): the files of the latest commit
\* are fetched and parsed, and saveChannels is called if they hold a channel;
\* it is suspended at its read
FetchNext(j, parsed) ==
  LET r == Job(j)
      source == Head(r.todo)
  IN /\ r.kind = "none" /\ r.pc = "fetch"
     /\ IF Len(parsed) > 0
          THEN /\ Goes(j, [r EXCEPT !.pc = "existing", !.source = source,
                                    !.incoming = parsed,
                                    !.commit = tracker.head[source]], FALSE)
               /\ tracker' = tracker
          ELSE /\ Goes(j, Rest(r, Tail(r.todo)), FALSE)
               /\ tracker' = [tracker EXCEPT !.ingested[source] = tracker.head[source]]
     /\ UNCHANGED <<channels, testResults, qualityMetrics, repositoryUpdates, clock,
                    missing, sse, probe, call>>

\* saveChannels(repository.id, channels) of a handler that fetched the files:
\* the read of the stored channels of the source is answered
SaveChannels(j) ==
  LET r == Job(j)
  IN /\ r.kind = "none" /\ r.pc = "existing"
     /\ Goes(j, SaveCall(r, r.source, r.incoming), FALSE)
     /\ UNCHANGED <<channels, testResults, qualityMetrics, repositoryUpdates, clock,
                    missing, tracker, sse, probe, call>>

\* ---- test cycle (cron test-streams, testChannelsForSource)
\* faulty variant: active channels come first
prioritizeActive(a, b) ==
  IF a.status = "active" /\ b.status # "active" THEN -1
  ELSE IF a.status # "active" /\ b.status = "active" THEN 1
  ELSE a.lastTested - b.lastTested

\* the comparator handed to Array.sort
prioritize(a, b) ==
  IF a.status = "untested" /\ b.status # "untested" THEN -1
  ELSE IF a.status # "untested" /\ b.status = "untested" THEN 1
  ELSE IF a.status = "inactive" /\ b.status = "active" THEN -1
  ELSE IF a.status = "active" /\ b.status = "inactive" THEN 1
  ELSE a.lastTested - b.lastTested

\* The orders channels.sort(prioritize) can return: the sort is stable and the rows
\* arrive ordered by quality_score descending, rows of equal score in any order.
SortedOrders(rows) ==
  {s \in [1..Cardinality(rows) -> rows] :
     \A i, j \in DOMAIN s :
       i < j => /\ s[i] # s[j]
                /\ \/ prioritize(s[i], s[j]) < 0
                   \/ prioritize(s[i], s[j]) = 0 /\ s[i].qualityScore >= s[j].qualityScore}

\* the network as the probes of a test cycle find it
CycleNets ==
  {[head |-> [kind |-> "response", status |-> 404],
    get |-> [kind |-> "error", status |-> 0],
    text |-> [kind |-> "error", lines |-> <<>>]],
   [head |-> [kind |-> "response", status |-> 200],
    get |-> [kind |-> "response", status |-> 200],
    text |-> [kind |-> "text", lines |-> <<>>]],
   [head |-> [kind |-> "response", status |-> 200],
    get |-> [kind |-> "response", status |-> 200],
    text |-> [kind |-> "text",
              lines |-> <<VariantLine(5000000, <<Res(1920, 1080)>>)>>]]}

NoOptions == [region |-> "undefined"]

SourceTestLimit == 100   \* testChannelsForSource(repository.id, 100)

\* the rows are read, sorted and cut to the limit: the loop before its first pass
TestCall(r, limit, sourceParam, sortedChannels) ==
  LET targetChannels == Slice(sortedChannels, limit)
  IN [r EXCEPT !.kind = "test",
               !.pc = IF targetChannels = <<>> THEN "done" ELSE "probe",
               !.source = sourceParam, !.limit = limit,
               !.queue = targetChannels,
               !.targets = [k \in DOMAIN targetChannels |-> targetChannels[k].id],
               !.k = 1,
               !.found = Tables]

\* const limit = limitParam ? Number(limitParam) : 50;
DefaultLimit == 50

\* the values of ?limit=: none, 0, a negative number, a count
LimitParams == {DefaultLimit, 0, -1} \cup 1..MaxLimit

\* GET /api/cron/test-streams?limit=&source=
TestStreams(j, limit, sourceParam, sortedChannels) ==
  /\ Starts(j, TestCall([NoOp EXCEPT !.route = "test-streams"], limit, sourceParam,
                        sortedChannels))
  /\ UNCHANGED <<channels, testResults, qualityMetrics, repositoryUpdates, clock,
                 missing, tracker, sse, probe, call>>

\* check-and-update, after saveChannels: testChannelsForSource reads the rows
TestSource(j, sortedChannels) ==
  LET r == Job(j)
  IN /\ r.kind = "none" /\ r.pc = "read"
     /\ LET next == TestCall(r, SourceTestLimit, Head(r.todo), sortedChannels)
        IN IF next.pc = "done" THEN Ends(j, next, Rest(r, Tail(r.todo)), FALSE)
           ELSE Goes(j, next, FALSE)
     /\ UNCHANGED <<channels, testResults, qualityMetrics, repositoryUpdates, clock,
                    missing, tracker, sse, probe, call>>

\* const result = await tester.testChannel(channel); testedAt is the time at
\* which testChannel was called
Probe(j, net, testedAt) ==
  LET r == Job(j)
      result == testChannel(r.queue[r.k], NoOptions, net, testedAt)
  IN /\ r.kind = "test" /\ r.pc = "probe"
     /\ testedAt \in Now(r)
     /\ clock' = clock + 1
     /\ Goes(j, [r EXCEPT !.pc = "saveResult", !.result = result,
                          !.probes = Append(@, result)], FALSE)
     /\ UNCHANGED <<channels, testResults, qualityMetrics, repositoryUpdates,
                    missing, tracker, sse, probe, call>>

\* await processor.saveTestResult(result): the insert is refused when the row
\* of the channel is gone (test_results.channel_id references channels)
SaveResult(j) ==
  LET r == Job(j)
  IN /\ r.kind = "test" /\ r.pc = "saveResult"
     /\ IF r.result.channelId \in DOMAIN channels
          THEN /\ testResults' = saveTestResult(testResults, r.result, FreshId)
               /\ Goes(j, [r EXCEPT !.pc = "patch", !.results = Append(@, r.result)],
                       TRUE)
          ELSE /\ testResults' = testResults
               /\ Goes(j, [r EXCEPT !.pc = "catch", !.fault = "saveTestResult"], FALSE)
     /\ UNCHANGED <<channels, qualityMetrics, repositoryUpdates, clock,
                    missing, tracker, sse, probe, call>>

\* the patch of the try block
TryPatch(tbl, result) ==
  updateChannel(tbl, result.channelId,
                [status |-> IF result.status = "success" THEN "active" ELSE "inactive",
                 lastTested |-> result.testedAt,
                 qualityScore |-> calculateQualityScore(result)])

\* await processor.patchChannel(channel.id, { status, lastTested, qualityScore })
PatchTested(j) ==
  LET r == Job(j)
  IN /\ r.kind = "test" /\ r.pc = "patch"
     /\ channels' = TryPatch(channels, r.result)
     /\ missing' = [i \in DOMAIN missing |->
                      IF i = r.result.channelId THEN r.result.status = "success"
                      ELSE missing[i]]
     /\ Goes(j, [r EXCEPT !.pc = "metrics"], TRUE)
     /\ UNCHANGED <<testResults, qualityMetrics, repositoryUpdates, clock,
                    tracker, sse, probe, call>>

\* how the request goes on when the test loop has ended
AfterTest(r) ==
  IF r.route \in TestedRoutes THEN Rest(r, Tail(r.todo)) ELSE NoOp

\* a pass of the test loop is over: the next pass, or the loop ends
NextPass(j, fault, wrote) ==
  LET r == Job(j)
      passed == [r EXCEPT !.faults = Append(@, fault), !.fault = "none"]
  IN IF r.k < Len(r.queue)
       THEN Goes(j, [passed EXCEPT !.k = @ + 1, !.pc = "probe", !.result = NoResult],
                 wrote)
       ELSE Ends(j, passed, AfterTest(r), wrote)

\* await processor.saveQualityMetrics(channel.id, calculateQualityMetrics([result]));
\* calculatedAt is the time at which the scorer ran
SaveMetrics(j, calculatedAt) ==
  LET r == Job(j)
  IN /\ r.kind = "test" /\ r.pc = "metrics"
     /\ calculatedAt \in Now(r)
     /\ IF r.result.channelId \in DOMAIN channels
          THEN /\ qualityMetrics' = saveQualityMetrics(qualityMetrics, r.result.channelId,
                                      calculateQualityMetrics(<<r.result>>, calculatedAt))
               /\ NextPass(j, "none", TRUE)
          ELSE /\ qualityMetrics' = qualityMetrics
               /\ Goes(j, [r EXCEPT !.pc = "catch", !.fault = "saveQualityMetrics"],
                       FALSE)
     /\ UNCHANGED <<channels, testResults, repositoryUpdates, clock,
                    missing, tracker, sse, probe, call>>

\* faulty variant: the catch block marks the channel active
CatchPatchActive(tbl, channelId, now) ==
  updateChannel(tbl, channelId, [status |-> "active", lastTested |-> now])

\* the patch of the catch block
CatchPatch(tbl, channelId, now) ==
  updateChannel(tbl, channelId, [status |-> "inactive", lastTested |-> now])

\* catch: await processor.patchChannel(channel.id, { status: 'inactive', ... });
\* lastTested is the time at which the catch block was entered
Caught(j, lastTested) ==
  LET r == Job(j)
  IN /\ r.kind = "test" /\ r.pc = "catch"
     /\ lastTested \in Now(r)
     /\ channels' = CatchPatch(channels, r.result.channelId, lastTested)
     /\ clock' = clock + 1
     /\ missing' = [i \in DOMAIN missing |->
                      IF i = r.result.channelId THEN FALSE ELSE missing[i]]
     /\ NextPass(j, r.fault, TRUE)
     /\ UNCHANGED <<testResults, qualityMetrics, repositoryUpdates,
                    tracker, sse, probe, call>>

\* ---- cron reset-tests, and GET /api/init
\* const channels = await processor.getAllChannels(): the loop before its first
\* pass
ResetCall(r, kind) ==
  [r EXCEPT !.kind = kind,
            !.pc = IF DOMAIN channels = {} THEN "done" ELSE "patch",
            !.ids = DOMAIN channels,
            !.found = Tables]

ResetTests(j) ==
  /\ Starts(j, ResetCall([NoOp EXCEPT !.route = "reset-tests"], "reset"))
  /\ UNCHANGED <<channels, testResults, qualityMetrics, repositoryUpdates, clock,
                 missing, tracker, sse, probe, call>>

\* one pass of the loop: await processor.patchChannel(channel.id, { status:
\* 'untested', qualityScore: 0 }), the rows in the order they were read
ResetNext(j, id) ==
  LET r == Job(j)
  IN /\ r.kind \in {"reset", "init"} /\ r.pc = "patch"
     /\ id \in r.ids
     /\ r.found.channels[id] \in Foremost({r.found.channels[i] : i \in r.ids})
     /\ channels' = updateChannel(channels, id, [status |-> "untested", qualityScore |-> 0])
     /\ Moves(j, [r EXCEPT !.ids = @ \ {id},
                           !.pc = IF r.ids = {id} THEN "done" ELSE "patch"], TRUE)
     /\ UNCHANGED <<testResults, qualityMetrics, repositoryUpdates, clock,
                    missing, tracker, sse, probe, call>>

\* the init handler has read the channels: without a tested channel it returns
InitCall(r) ==
  [r EXCEPT !.kind = "init",
            !.pc = IF \E i \in DOMAIN channels : channels[i].status \in {"active", "inactive"}
                     THEN "peek" ELSE "done",
            !.ids = DOMAIN channels,
            !.found = Tables]

\* GET /api/init
InitDatabase(j) ==
  /\ Starts(j, InitCall([NoOp EXCEPT !.route = "init"]))
  /\ UNCHANGED <<channels, testResults, qualityMetrics, repositoryUpdates, clock,
                 missing, tracker, sse, probe, call>>

\* the init handler that validates the tables first: it runs its queries
\* whatever the channels are, and decides when the last one has returned
ValidatedInit == "init-validated"

InitDatabaseValidated(j) ==
  /\ Starts(j, [InitCall([NoOp EXCEPT !.route = ValidatedInit]) EXCEPT !.pc = "peek"])
  /\ UNCHANGED <<channels, testResults, qualityMetrics, repositoryUpdates, clock,
                 missing, tracker, sse, probe, call>>

\* what the query of test_results can answer with: rows, the error code of a
\* query without a row, another error
PeekErrors == {"none", "PGRST116", "other"}

\* select id from test_results limit 1: with tested channels and no test result
\* every channel is reset, and also when the query fails (hasRealTestResults =
\* !error && testResults && testResults.length > 0). The handler that validates
\* the tables answers 500 to an error other than PGRST116, and goes on to its
\* queries of quality_metrics and repository_updates otherwise.
PeekResults(j, error) ==
  LET r == Job(j)
      hasRealTestResults == error = "none" /\ testResults # <<>>
      testedCount == Cardinality({i \in r.ids :
                                    r.found.channels[i].status \in {"active", "inactive"}})
  IN /\ r.kind = "init" /\ r.pc = "peek"
     /\ IF r.route # ValidatedInit
          THEN Moves(j, [r EXCEPT !.pc = IF hasRealTestResults THEN "done" ELSE "patch"],
                     FALSE)
        ELSE IF error = "other" THEN Ends(j, [r EXCEPT !.failed = TRUE], NoOp, FALSE)
        ELSE Goes(j, [r EXCEPT !.pc = "validate",
                               !.ids = IF testedCount = 0 \/ hasRealTestResults THEN {}
                                       ELSE @], FALSE)
     /\ UNCHANGED <<channels, testResults, qualityMetrics, repositoryUpdates, clock,
                    missing, tracker, sse, probe, call>>

\* the queries of quality_metrics and repository_updates have returned: without
\* a tested channel, or with a test result, the handler returns; else it
\* resets every channel
ValidateTables(j) ==
  LET r == Job(j)
  IN /\ r.kind = "init" /\ r.pc = "validate"
     /\ Moves(j, [r EXCEPT !.pc = IF r.ids = {} THEN "done" ELSE "patch"], FALSE)
     /\ UNCHANGED <<channels, testResults, qualityMetrics, repositoryUpdates, clock,
                    missing, tracker, sse, probe, call>>

\* ---- cron calculate-metrics
CalculateMetrics(j) ==
  /\ Starts(j, [ResetCall([NoOp EXCEPT !.route = "calculate-metrics"], "metrics")
                  EXCEPT !.pc = IF DOMAIN channels = {} THEN "done" ELSE "results"])
  /\ UNCHANGED <<channels, testResults, qualityMetrics, repositoryUpdates, clock,
                 missing, tracker, sse, probe, call>>

\* the calculate-metrics handler that validates the tables first: its loop
\* has a try block of its own around the storage calls of a channel
ValidatedRoute == "calculate-metrics-validated"

CalculateMetricsValidated(j) ==
  /\ Starts(j, [ResetCall([NoOp EXCEPT !.route = ValidatedRoute], "metrics")
                  EXCEPT !.pc = IF DOMAIN channels = {} THEN "done" ELSE "results"])
  /\ UNCHANGED <<channels, testResults, qualityMetrics, repositoryUpdates, clock,
                 missing, tracker, sse, probe, call>>

\* catch (error) { skipped += 1 }: the loop goes on with the next channel
SkipChannel(r, id) ==
  [r EXCEPT !.ids = @ \ {id}, !.results = <<>>,
            !.pc = IF r.ids = {id} THEN "done" ELSE "results"]

\* const results = await processor.getTestResults(channel.id); a channel
\* without results is passed over
ReadResults(j, id) ==
  LET r == Job(j)
      results == getTestResults(testResults, id)
  IN /\ r.kind = "metrics" /\ r.pc = "results"
     /\ id \in r.ids
     /\ r.found.channels[id] \in Foremost({r.found.channels[i] : i \in r.ids})
     /\ IF Len(results) = 0
          THEN Moves(j, [r EXCEPT !.ids = @ \ {id},
                                  !.pc = IF r.ids = {id} THEN "done" ELSE "results"],
                     FALSE)
          ELSE Goes(j, [r EXCEPT !.results = results, !.k = id, !.pc = "metrics"], FALSE)
     /\ UNCHANGED <<channels, testResults, qualityMetrics, repositoryUpdates, clock,
                    missing, tracker, sse, probe, call>>

\* await processor.saveQualityMetrics(channel.id, calculateQualityMetrics(results));
\* the upsert is refused when the row of the channel is gone: the request
\* fails, or the handler with the try block in its loop skips the channel
SaveMetricsOf(j, calculatedAt) ==
  LET r == Job(j)
  IN /\ r.kind = "metrics" /\ r.pc = "metrics"
     /\ calculatedAt \in Now(r)
     /\ IF r.k \in DOMAIN channels
          THEN /\ qualityMetrics' = saveQualityMetrics(qualityMetrics, r.k,
                                      calculateQualityMetrics(r.results, calculatedAt))
               /\ Moves(j, [r EXCEPT !.ids = @ \ {r.k}, !.results = <<>>,
                                     !.pc = IF r.ids = {r.k} THEN "done" ELSE "results"],
                        TRUE)
          ELSE /\ qualityMetrics' = qualityMetrics
               /\ IF r.route = ValidatedRoute THEN Moves(j, SkipChannel(r, r.k), FALSE)
                  ELSE Ends(j, [r EXCEPT !.failed = TRUE], NoOp, FALSE)
     /\ UNCHANGED <<channels, testResults, repositoryUpdates, clock,
                    missing, tracker, sse, probe, call>>

\* ---- cron clean-database
\* the tables in the order they are emptied
CleanOrder == <<"test_results", "quality_metrics", "channels", "repository_updates",
                "repositories">>

\* the ids of the rows of a table, in the column the rows are deleted by
RowsOf(table) ==
  IF table = "test_results" THEN {testResults[k].id : k \in DOMAIN testResults}
  ELSE IF table = "quality_metrics" THEN DOMAIN qualityMetrics
  ELSE IF table = "channels" THEN DOMAIN channels
  ELSE IF table = "repository_updates"
    THEN {repositoryUpdates[k].id : k \in DOMAIN repositoryUpdates}
  ELSE DOMAIN tracker.repositories

BatchLimit == 1000      \* select(idColumn).limit(1000)
MaxIterations == 20     \* maxIterations of deleteAllFromTable

\* what select(idColumn).limit(1000) can return: the query has no order, so any
\* rows of the table, all of them when it has no more than the limit
Batches(table) ==
  {ids \in SUBSET RowsOf(table) :
     Cardinality(ids) = IF Cardinality(RowsOf(table)) > BatchLimit THEN BatchLimit
                        ELSE Cardinality(RowsOf(table))}

\* POST /api/cron/clean-database: the rows are counted; r.k counts the
\* iterations of deleteAllFromTable
CleanDatabase(j) ==
  /\ Starts(j, [NoOp EXCEPT !.route = "clean-database", !.kind = "clean",
                            !.pc = "select", !.todo = CleanOrder, !.k = 0,
                            !.found = Tables])
  /\ UNCHANGED <<channels, testResults, qualityMetrics, repositoryUpdates, clock,
                 missing, tracker, sse, probe, call>>

\* deleteAllFromTable returns: the next table, or the request ends
NextTable(j, wrote) ==
  LET r == Job(j)
  IN Moves(j, [r EXCEPT !.todo = Tail(@), !.ids = {}, !.k = 0,
                        !.pc = IF Len(r.todo) > 1 THEN "select" ELSE "done"], wrote)

\* deleteAllFromTable: select(idColumn).limit(1000); without a row the loop is
\* left
SelectRows(j, ids) ==
  LET r == Job(j)
  IN /\ r.kind = "clean" /\ r.pc = "select"
     /\ ids \in Batches(Head(r.todo))
     /\ IF ids = {} THEN NextTable(j, FALSE)
        ELSE Goes(j, [r EXCEPT !.ids = ids, !.pc = "delete"], FALSE)
     /\ UNCHANGED <<channels, testResults, qualityMetrics, repositoryUpdates, clock,
                    missing, tracker, sse, probe, call>>

\* deleteAllFromTable: delete().in(idColumn, ids); the loop is left after a
\* batch below the limit and after maxIterations batches
DeleteRows(j) ==
  LET r == Job(j)
      table == Head(r.todo)
  IN /\ r.kind = "clean" /\ r.pc = "delete"
     /\ testResults' = IF table = "test_results" THEN deleteTestResults(testResults, r.ids)
                       ELSE IF table = "channels" THEN cascadeTestResults(testResults, r.ids)
                       ELSE testResults
     /\ qualityMetrics' = IF table \in {"quality_metrics", "channels"}
                            THEN deleteQualityMetrics(qualityMetrics, r.ids)
                            ELSE qualityMetrics
     /\ channels' = IF table = "channels" THEN deleteChannels(channels, r.ids)
                    ELSE channels
     /\ missing' = [i \in DOMAIN missing \cap DOMAIN channels' |-> missing[i]]
     /\ repositoryUpdates' = IF table = "repository_updates"
                               THEN deleteRepositoryUpdates(repositoryUpdates, r.ids)
                               ELSE repositoryUpdates
     /\ tracker' = IF table = "repositories"
                     THEN [tracker EXCEPT !.repositories = deleteRepositories(@, r.ids)]
                     ELSE tracker
     /\ IF Cardinality(r.ids) < BatchLimit \/ r.k + 1 >= MaxIterations
          THEN NextTable(j, TRUE)
          ELSE Goes(j, [r EXCEPT !.k = @ + 1, !.ids = {}, !.pc = "select"], TRUE)
     /\ UNCHANGED <<clock, sse, probe, call>>

\* ---- the other handlers that fetch the repositories
\* const tracked = await tracker.loadTrackedRepositories(): without a row the
\* handler calls initializeDefaultRepositories, else it goes through the rows
LoadCall(r, tracked) ==
  IF tracked = <<>> THEN InitializeCall(r) ELSE Rest(r, tracked)

\* GET /api/cron/force-fetch: every tracked repository is fetched and saved,
\* whatever its commit
ForceFetch(j, tracked) ==
  /\ Starts(j, LoadCall([NoOp EXCEPT !.route = "force-fetch"], tracked))
  /\ UNCHANGED <<channels, testResults, qualityMetrics, repositoryUpdates, clock,
                 missing, tracker, sse, probe, call>>

\* force-fetch, after initializeDefaultRepositories: const fresh = await
\* tracker.loadTrackedRepositories()
ReloadTracked(j, tracked) ==
  LET r == Job(j)
  IN /\ r.kind = "none" /\ r.pc = "reload"
     /\ Goes(j, Rest(r, tracked), FALSE)
     /\ UNCHANGED <<channels, testResults, qualityMetrics, repositoryUpdates, clock,
                    missing, tracker, sse, probe, call>>

\* POST /api/populate: every tracked repository is fetched, saved and tested
Populate(j, tracked) ==
  /\ Starts(j, LoadCall([NoOp EXCEPT !.route = "populate"], tracked))
  /\ UNCHANGED <<channels, testResults, qualityMetrics, repositoryUpdates, clock,
                 missing, tracker, sse, probe, call>>

\* POST /api/populate of the handler that tests the channels it parsed
PopulateEnriched(j, tracked) ==
  /\ Starts(j, LoadCall([NoOp EXCEPT !.route = EnrichedRoute], tracked))
  /\ UNCHANGED <<channels, testResults, qualityMetrics, repositoryUpdates, clock,
                 missing, tracker, sse, probe, call>>

\* the branch the tracker follows, and another one
TrackedBranch == "main"
Branches == {TrackedBranch, "dev"}

\* the body the webhook posts to /api/jobs/process-repository
JobBody(repo, commitSha) == [repo |-> repo, commitSha |-> commitSha]

\* POST /api/webhooks/github, a push event with a valid signature: await
\* tracker.isRepositoryTracked(owner, repo), and for a tracked repository the
\* job is posted and not waited for. A push to the tracked branch is a commit
\* of the upstream repository.
Webhook(repo, ref, commitSha) ==
  /\ ref = TrackedBranch => commitSha >= tracker.head[repo]
  /\ tracker' = [tracker EXCEPT
                   !.head[repo] = IF ref = TrackedBranch THEN commitSha ELSE @,
                   !.posted = IF repo \in DOMAIN tracker.repositories
                                THEN @ \cup {JobBody(repo, commitSha)} ELSE @]
  /\ UNCHANGED <<channels, testResults, qualityMetrics, repositoryUpdates, clock, last,
                 pre, probe, call, missing, jobs, sse>>

\* the fetch of the job URL rejects: handleError logs it
DropJob(body) ==
  /\ body \in tracker.posted
  /\ tracker' = [tracker EXCEPT !.posted = @ \ {body}]
  /\ UNCHANGED <<channels, testResults, qualityMetrics, repositoryUpdates, clock, last,
                 pre, probe, call, missing, jobs, sse>>

\* const trackedRepos = await tracker.loadTrackedRepositories(): 404 for a
\* repository that is not tracked, else the row is built with the commit of the
\* body (commitSha || trackedRepo.lastCommitSha)
ProcessCall(r, body) ==
  IF body.repo \notin DOMAIN tracker.repositories
    THEN [r EXCEPT !.kind = "job", !.source = body.repo, !.found = Tables]
    ELSE [r EXCEPT !.kind = "job", !.pc = "store", !.source = body.repo,
                   !.todo = <<body.repo>>, !.rows = <<body.repo>>,
                   !.loaded = tracker.repositories,
                   !.commit = IF body.commitSha = 0 THEN tracker.repositories[body.repo]
                              ELSE body.commitSha,
                   !.found = Tables]

\* the bodies with owner, repo and ref that a request can carry; commitSha 0
\* stands for a body without one
JobBodies == {JobBody(repo, commitSha) : repo \in Sources, commitSha \in 0..MaxCommit}

\* POST /api/jobs/process-repository with the internal key: the request the
\* webhook posted, or one of any other sender; when the read of the table
\* fails the answer is 500
ProcessRepository(j, body, posted, error) ==
  /\ posted => body \in tracker.posted
  /\ Starts(j, IF error
                 THEN [NoOp EXCEPT !.route = "process-repository", !.kind = "read",
                                   !.failed = TRUE, !.found = Tables]
                 ELSE ProcessCall([NoOp EXCEPT !.route = "process-repository"], body))
  /\ tracker' = IF posted THEN [tracker EXCEPT !.posted = @ \ {body}] ELSE tracker
  /\ UNCHANGED <<channels, testResults, qualityMetrics, repositoryUpdates, clock,
                 missing, sse, probe, call>>

\* await upsertRepository(updatedRepo), and the files are fetched
StoreCommit(j) ==
  LET r == Job(j)
      repo == Head(r.todo)
  IN /\ r.kind = "job" /\ r.pc = "store"
     /\ tracker' = [tracker EXCEPT !.repositories = upsertRepository(@, repo, r.commit)]
     /\ Ends(j, r, Rest(r, r.todo), TRUE)
     /\ UNCHANGED <<channels, testResults, qualityMetrics, repositoryUpdates, clock,
                    missing, sse, probe, call>>

\* ---- testAndEnrichChannels and the two loops that store what it returns
\* r.probes holds the results and r.rows the metrics calculated from them

\* a pass of a loop is over: the next pass, the next loop (the patches come
\* first, then the results with their metrics), or the repository is done
EnrichNext(j, r, patching, wrote) ==
  IF r.k < Len(r.queue)
    THEN Goes(j, [r EXCEPT !.k = @ + 1, !.pc = IF patching THEN "update" ELSE "result"],
              wrote)
  ELSE IF patching THEN Goes(j, [r EXCEPT !.k = 1, !.pc = "result"], wrote)
  ELSE Ends(j, r, Rest(r, Tail(r.todo)), wrote)

\* the metrics of the results that have none yet: calculateQualityMetrics([result])
\* runs when testChannel has returned, before the next call is issued
WithMetrics(r, calculatedAt) ==
  IF Len(r.rows) < Len(r.probes)
    THEN Append(r.rows, calculateQualityMetrics(<<r.probes[Len(r.probes)]>>, calculatedAt))
    ELSE r.rows

\* const result = await tester.testChannel(channel), for a channel as it was
\* parsed
EnrichProbe(j, net, calculatedAt, testedAt) ==
  LET r == Job(j)
      result == testChannel(r.queue[r.k], NoOptions, net, testedAt)
  IN /\ r.kind = "enrich" /\ r.pc = "enrich"
     /\ calculatedAt \in Now(r) /\ testedAt \in Now(r)
     /\ calculatedAt <= testedAt
     /\ r.k = 1 => calculatedAt = testedAt
     /\ clock' = clock + 1
     /\ Goes(j, [r EXCEPT !.probes = Append(@, result),
                          !.rows = WithMetrics(r, calculatedAt),
                          !.k = IF r.k < Len(r.queue) THEN @ + 1 ELSE 1,
                          !.pc = IF r.k < Len(r.queue) THEN "enrich" ELSE "update"],
             FALSE)
     /\ UNCHANGED <<channels, testResults, qualityMetrics, repositoryUpdates,
                    missing, tracker, sse, probe, call>>

\* await processor.patchChannel(enrichedChannel.id, { status, qualityScore,
\* lastTested })
EnrichPatch(j, calculatedAt) ==
  LET r == Job(j)
  IN /\ r.kind = "enrich" /\ r.pc = "update"
     /\ calculatedAt \in Now(r)
     /\ Len(r.rows) = Len(r.probes) => calculatedAt = clock
     /\ channels' = TryPatch(channels, r.probes[r.k])
     /\ missing' = [i \in DOMAIN missing |->
                      IF i = r.probes[r.k].channelId THEN r.probes[r.k].status = "success"
                      ELSE missing[i]]
     /\ EnrichNext(j, [r EXCEPT !.rows = WithMetrics(r, calculatedAt)], TRUE, TRUE)
     /\ UNCHANGED <<testResults, qualityMetrics, repositoryUpdates, clock,
                    tracker, sse, probe, call>>

\* await processor.saveTestResult(testResult): when the insert is refused the
\* metrics of the channel are not saved
EnrichSaveResult(j) ==
  LET r == Job(j)
  IN /\ r.kind = "enrich" /\ r.pc = "result"
     /\ IF r.probes[r.k].channelId \in DOMAIN channels
          THEN /\ testResults' = saveTestResult(testResults, r.probes[r.k], FreshId)
               /\ Goes(j, [r EXCEPT !.pc = "score",
                                    !.results = Append(@, r.probes[r.k])], TRUE)
          ELSE /\ testResults' = testResults
               /\ EnrichNext(j, r, FALSE, FALSE)
     /\ UNCHANGED <<channels, qualityMetrics, repositoryUpdates, clock,
                    missing, tracker, sse, probe, call>>

\* await processor.saveQualityMetrics(testResult.channelId, metrics)
EnrichSaveMetrics(j) ==
  LET r == Job(j)
      channelId == r.probes[r.k].channelId
  IN /\ r.kind = "enrich" /\ r.pc = "score"
     /\ IF channelId \in DOMAIN channels
          THEN /\ qualityMetrics' = saveQualityMetrics(qualityMetrics, channelId, r.rows[r.k])
               /\ EnrichNext(j, r, FALSE, TRUE)
          ELSE /\ qualityMetrics' = qualityMetrics
               /\ EnrichNext(j, r, FALSE, FALSE)
     /\ UNCHANGED <<channels, testResults, repositoryUpdates, clock,
                    missing, tracker, sse, probe, call>>

\* a storage call of one of the two loops rejects: its catch block logs the
\* error and the loop goes to its next pass
EnrichFails(j, calculatedAt) ==
  LET r == Job(j)
  IN /\ r.kind = "enrich" /\ r.pc \in {"update", "result", "score"}
     /\ calculatedAt \in Now(r)
     /\ Len(r.rows) = Len(r.probes) => calculatedAt = clock
     /\ EnrichNext(j, [r EXCEPT !.rows = WithMetrics(r, calculatedAt)], r.pc = "update",
                   FALSE)
     /\ UNCHANGED <<channels, testResults, qualityMetrics, repositoryUpdates, clock,
                    missing, tracker, sse, probe, call>>

\* ---- a storage call that fails
\* The storage call a request is waiting for rejects. In the try block of the
\* test loop the catch block is entered; an error thrown by the catch block
\* leaves the loop. saveChannels, the reset loop and the other handlers have
\* no catch of their own: the error ends the operation with what it has
\* written so far, and the request unless a loop over the repositories catches
\* it. The loop of the calculate-metrics handler that validates the tables
\* catches the error and skips the channel. The calls are the writes and the
\* awaited reads: getRepositoryById ("find"), getTestResults ("results"), the
\* select of deleteAllFromTable ("select"), the queries of the init handler that
\* validates the tables ("validate") and getChannelsBySource of
\* testChannelsForSource ("read", between two operations of a request) and
\* loadTrackedRepositories of force-fetch ("reload").
StorageCalls ==
  [save |-> {"upsert", "remove", "audit"},
   test |-> {"saveResult", "patch", "metrics", "catch"},
   reset |-> {"patch"}, init |-> {"validate", "patch"},
   metrics |-> {"results", "metrics"}, clean |-> {"select", "delete"},
   check |-> {"find", "store"}, initialize |-> {"find", "store"},
   job |-> {"store"},
   none |-> {"existing", "read", "reload"}]

FaultOf(pc) ==
  IF pc = "saveResult" THEN "saveTestResult"
  ELSE IF pc = "patch" THEN "patchChannel"
  ELSE "saveQualityMetrics"

StorageFails(j) ==
  LET r == Job(j)
  IN /\ r.kind \in DOMAIN StorageCalls
     /\ r.pc \in StorageCalls[r.kind]
     /\ IF r.kind = "test" /\ r.pc # "catch"
          THEN Goes(j, [r EXCEPT !.pc = "catch", !.fault = FaultOf(r.pc)], FALSE)
        ELSE IF r.kind = "test"
          THEN Ends(j, [r EXCEPT !.failed = TRUE,
                                 !.faults = Append(@, "patchChannelTwice"),
                                 !.targets = SubSeq(@, 1, r.k)],
                    AfterTest(r), FALSE)
        ELSE IF r.kind = "save" /\ r.route \in RepositoryLoops
          THEN Ends(j, [r EXCEPT !.failed = TRUE], Rest(r, Tail(r.todo)), FALSE)
        ELSE IF r.kind = "none"
          THEN Goes(j, IF r.pc \in {"existing", "read"} /\ r.route \in RepositoryLoops
                         THEN Rest(r, Tail(r.todo))
                       ELSE NoOp, FALSE)
        ELSE IF r.kind = "metrics" /\ r.route = ValidatedRoute
          THEN \E id \in r.ids :
                 /\ IF r.pc = "metrics" THEN id = r.k
                    ELSE r.found.channels[id] \in
                           Foremost({r.found.channels[i] : i \in r.ids})
                 /\ Moves(j, SkipChannel(r, id), FALSE)
        ELSE Ends(j, [r EXCEPT !.failed = TRUE], NoOp, FALSE)
     /\ UNCHANGED <<channels, testResults, qualityMetrics, repositoryUpdates, clock,
                    missing, tracker, sse, probe, call>>

\* fetchUpdatedFiles rejects:
\* update-sources fails, a loop with a try block goes to its next repository
FetchFails(j) ==
  LET r == Job(j)
  IN /\ r.kind = "none" /\ r.pc = "fetch"
     /\ Goes(j, IF r.route \in RepositoryLoops THEN Rest(r, Tail(r.todo)) ELSE NoOp,
             FALSE)
     /\ UNCHANGED <<channels, testResults, qualityMetrics, repositoryUpdates, clock,
                    missing, tracker, sse, probe, call>>

\* getLatestCommitSha rejects: checkForUpdates, or
\* initializeDefaultRepositories, rejects with it and the request fails; the
\* rows stored for the repositories before stay
ShaFails(j) ==
  LET r == Job(j)
  IN /\ r.kind \in {"check", "initialize"} /\ r.pc = "sha"
     /\ Ends(j, [r EXCEPT !.failed = TRUE], NoOp, FALSE)
     /\ UNCHANGED <<channels, testResults, qualityMetrics, repositoryUpdates, clock,
                    missing, tracker, sse, probe, call>>

\* the first read of a handler rejects (getChannelsBySource, getAllChannels,
\* loadTrackedRepositories): the request fails and nothing was written
ReadFails(j, route) ==
  /\ Starts(j, [NoOp EXCEPT !.route = route, !.kind = "read", !.failed = TRUE,
                            !.found = Tables])
  /\ UNCHANGED <<channels, testResults, qualityMetrics, repositoryUpdates, clock,
                 missing, tracker, sse, probe, call>>

\* ---- SSE clients polling the audit log
\* sse.clients holds every client that has connected: whether its stream is
\* open, and as histories the times at which it connected (since) and at which
\* its request was aborted (until). sse.polls holds the poll callbacks in
\* progress: setInterval starts a callback every five seconds whether or not
\* the one before has returned, so a client can have several. sse.sent is a
\* history: the rows that were in the payload of an updates event.
ClientIds == {1, 2}

\* a write of a poll callback is noted by the requests in progress
Noted(kind) ==
  /\ jobs' = [jobs EXCEPT !.calls = [i \in JobIds |->
                 IF Job(i).pc # "done" THEN [Job(i) EXCEPT !.others = @ \cup {kind}]
                 ELSE Job(i)]]
  /\ last' = [last EXCEPT !.others = @ \cup {kind}]
  /\ pre' = pre

\* GET /api/jobs/process-repository: the stream starts, the interval is set;
\* the clients are numbered in the order they connect
Connect(c) ==
  /\ c \notin DOMAIN sse.clients
  /\ \A d \in ClientIds : d < c => d \in DOMAIN sse.clients
  /\ sse' = [sse EXCEPT !.clients =
               [d \in DOMAIN sse.clients \cup {c} |->
                  IF d = c THEN [open |-> TRUE, since |-> clock, until |-> NoTime]
                  ELSE sse.clients[d]]]
  /\ UNCHANGED <<channels, testResults, qualityMetrics, repositoryUpdates, clock, last,
                 pre, probe, call, missing, jobs, tracker>>

\* handleAbort: clearInterval(intervalId) and controller.close(); the
\* callbacks in progress go on
Abort(c) ==
  /\ c \in DOMAIN sse.clients
  /\ sse.clients[c].open
  /\ sse' = [sse EXCEPT !.clients[c].open = FALSE, !.clients[c].until = clock]
  /\ UNCHANGED <<channels, testResults, qualityMetrics, repositoryUpdates, clock, last,
                 pre, probe, call, missing, jobs, tracker>>

\* the poll callback p ends
PollEnds(p) == [sse EXCEPT !.polls[p] = NoPoll]

\* pollQueue: the interval of client c fires and await readUpdates() returns,
\* in the first free slot; the callback ends when the query fails and when it
\* returns no row
ReadUpdates(c, p, error) ==
  /\ c \in DOMAIN sse.clients
  /\ sse.clients[c].open
  /\ sse.polls[p].pc = "idle"
  /\ \A q \in PollIds : sse.polls[q].pc = "idle" => p <= q
  /\ sse' = IF error \/ Unprocessed(repositoryUpdates) = {} THEN sse
            ELSE [sse EXCEPT !.polls[p] = [pc |-> "send", client |-> c,
                                           updates |-> Unprocessed(repositoryUpdates),
                                           ids |-> {}]]
  /\ UNCHANGED <<channels, testResults, qualityMetrics, repositoryUpdates, clock, last,
                 pre, probe, call, missing, jobs, tracker>>

\* pollQueue: sendEvent({ type: 'updates', payload: updates }), and clearUpdates
\* is called; controller.enqueue throws when the stream has been closed, and
\* the callback ends
SendEvent(p) ==
  /\ sse.polls[p].pc = "send"
  /\ sse' = IF sse.clients[sse.polls[p].client].open
              THEN [sse EXCEPT !.sent = @ \cup sse.polls[p].updates,
                               !.polls[p].updates = {},
                               !.polls[p].pc = "select"]
              ELSE PollEnds(p)
  /\ UNCHANGED <<channels, testResults, qualityMetrics, repositoryUpdates, clock, last,
                 pre, probe, call, missing, jobs, tracker>>

\* clearUpdates: select id ... eq processed false; the error of the query is
\* not looked at, and without data nothing is marked
SelectIds(p, error) ==
  /\ sse.polls[p].pc = "select"
  /\ sse' = IF error \/ Unprocessed(repositoryUpdates) = {} THEN PollEnds(p)
            ELSE [sse EXCEPT !.polls[p].ids = Unprocessed(repositoryUpdates),
                             !.polls[p].pc = "mark"]
  /\ UNCHANGED <<channels, testResults, qualityMetrics, repositoryUpdates, clock, last,
                 pre, probe, call, missing, jobs, tracker>>

\* clearUpdates: markRepositoryUpdatesAsProcessed(ids); when the update fails
\* the callback rejects and no row is marked
MarkProcessed(p, error) ==
  /\ sse.polls[p].pc = "mark"
  /\ sse' = PollEnds(p)
  /\ IF error THEN UNCHANGED <<repositoryUpdates, jobs, last, pre>>
     ELSE /\ repositoryUpdates' = markRepositoryUpdatesAsProcessed(repositoryUpdates,
                                                                     sse.polls[p].ids)
          /\ Noted("poll")
  /\ UNCHANGED <<channels, testResults, qualityMetrics, clock,
                 probe, call, missing, tracker>>

\* ---- the specifications
MaxOverlaps == 1    \* requests per behaviour that arrive while another is in progress

\* a request of a route can arrive: fewer than `most` have arrived, fewer than
\* `atOnce` are in progress, none of them of the same route, and j is the first
\* free slot
Arrives(j, route, most, atOnce) ==
  /\ jobs.n < most
  /\ Cardinality(InFlight) < atOnce
  /\ InFlight = {} \/ jobs.overlaps < MaxOverlaps
  /\ Job(j).pc = "done"
  /\ \A i \in JobIds : Job(i).pc = "done" => j <= i
  /\ \A i \in JobIds : Job(i).route # route

\* the rows a test cycle reads for its ?source= parameter
RowsFor(sourceParam) ==
  IF sourceParam = "all" THEN getAllChannels(channels)
  ELSE getChannelsBySource(channels, sourceParam)

\* The payloads of the pipeline. validateChannelPayload asks only that id,
\* name, url, source and category are set: besides the channels 1 and 2 as the
\* parser builds them, a payload can carry the id of channel 1 with another
\* name and URL, and an entry whose source field names another source than the
\* source of the request.
PipelineBatches(source) ==
  {<<>>, <<buildChannel(1, source)>>,
   <<buildChannel(1, source), buildChannel(2, source)>>,
   <<Channel(1, "n2", AltUrl(1), "untested", source, 0, NoTime)>>,
   <<buildChannel(2, CHOOSE other \in Sources : other # source)>>}

\* the steps of saveChannels
SaveSteps ==
  \/ \E j \in JobIds : UpsertNext(j)
  \/ \E j \in JobIds : \E channel \in Job(j).absent : RemoveNext(j, channel)
  \/ \E j \in JobIds : \E timestamp \in Now(Job(j)) : AppendAudit(j, timestamp)

\* the steps of the test loop when every storage call succeeds
TestSteps ==
  \/ \E j \in JobIds : \E net \in CycleNets :
       \E testedAt \in Now(Job(j)) : Probe(j, net, testedAt)
  \/ \E j \in JobIds : SaveResult(j)
  \/ \E j \in JobIds : PatchTested(j)
  \/ \E j \in JobIds : \E calculatedAt \in Now(Job(j)) : SaveMetrics(j, calculatedAt)

\* the pipeline: ingestion, the cron routes and the maintenance routes, two
\* requests of different routes at once
Next ==
  \/ \E j \in JobIds : Arrives(j, "post", MaxOps, 2) /\
       \E source \in Sources : \E items \in PipelineBatches(source) :
         PostChannels(j, source, items)
  \/ SaveSteps
  \/ \E j \in JobIds : Arrives(j, "test-streams", MaxOps, 2) /\
       \E limit \in LimitParams, sourceParam \in Sources \cup {"all"} :
         \E sortedChannels \in SortedOrders(RowsFor(sourceParam)) :
           TestStreams(j, limit, sourceParam, sortedChannels)
  \/ TestSteps
  \/ \E j \in JobIds : \E lastTested \in Now(Job(j)) : Caught(j, lastTested)
  \/ \E j \in JobIds : Arrives(j, "reset-tests", MaxOps, 2) /\ ResetTests(j)
  \/ \E j \in JobIds : Arrives(j, "init", MaxOps, 2) /\ InitDatabase(j)
  \/ \E j \in JobIds : PeekResults(j, "none")
  \/ \E j \in JobIds : \E id \in Job(j).ids : ResetNext(j, id)
  \/ \E j \in JobIds : Arrives(j, "calculate-metrics", MaxOps, 2) /\ CalculateMetrics(j)
  \/ \E j \in JobIds : Arrives(j, ValidatedRoute, MaxOps, 2) /\
       CalculateMetricsValidated(j)
  \/ \E j \in JobIds : \E id \in Job(j).ids : ReadResults(j, id)
  \/ \E j \in JobIds : \E calculatedAt \in Now(Job(j)) : SaveMetricsOf(j, calculatedAt)
  \/ \E j \in JobIds : Arrives(j, "clean-database", MaxOps, 2) /\ CleanDatabase(j)
  \/ \E j \in JobIds : Job(j).pc = "select" /\
       \E ids \in Batches(Head(Job(j).todo)) : SelectRows(j, ids)
  \/ \E j \in JobIds : DeleteRows(j)

Spec == Init /\ [][Next]_vars

\* ---- POST /api/channels, one request after the other
NextApi ==
  \/ \E j \in JobIds : Arrives(j, "post", MaxPosts, 1) /\
       \E source \in Sources : \E items \in ApiBatches : PostChannels(j, source, items)
  \/ SaveSteps

SpecApi == Init /\ [][NextApi]_vars

\* ---- saveChannels calls of one source, two of them at once
\* The webhook starts its job without waiting for it and the cron routes run on
\* their own schedule, so a second request can call saveChannels while the
\* first call is suspended at one of its awaits. A call overlaps one other
\* call at most.
MaxSaves == 3       \* saveChannels calls per behaviour

SaveArrives(j) ==
  /\ jobs.n < MaxSaves
  /\ Job(j).pc = "done"
  /\ \A i \in JobIds : Job(i).pc = "done" => j <= i
  /\ \A i \in JobIds : Job(i).pc # "done" => Job(i).others = {} /\ Job(i).peer = NoPeer

NextSave ==
  \/ \E j \in JobIds : SaveArrives(j) /\
       \E items \in RepositoryBatches("s1") : PostChannels(j, "s1", items)
  \/ SaveSteps

SpecSave == Init /\ [][NextSave]_vars

\* ---- polling the tracked repositories
MaxTrackOps == 2    \* requests per behaviour

\* the files of a commit, parsed: no channel or one
TrackBatches(source) ==
  {<<>>, <<buildChannel(1, source)>>, <<buildChannel(2, source)>>}

\* the network as the probes of check-and-update find it
TrackNets == {net \in CycleNets : net.head.status = 200 /\ net.text.lines # <<>>}

\* the requests of a behaviour, from its first, in which a call can fail
MaxFaultyOps == 1

\* the routes of this specification whose handler starts with a read
TrackRoutes == {"update-sources", "check-repos", "check-and-update"}

NextTrack ==
  \/ \E j \in JobIds : Arrives(j, "update-sources", MaxTrackOps, 1) /\
       \E tracked \in RowOrders(tracker.repositories) : UpdateSources(j, tracked)
  \/ \E j \in JobIds : Arrives(j, "check-repos", MaxTrackOps, 1) /\
       \E tracked \in RowOrders(tracker.repositories) : CheckRepos(j, tracked)
  \/ \E j \in JobIds : Arrives(j, "check-and-update", MaxTrackOps, 1) /\
       \E tracked \in RowOrders(tracker.repositories) : CheckAndUpdate(j, tracked)
  \/ \E j \in JobIds : \E body \in JobBodies :
       Arrives(j, "process-repository", MaxTrackOps, 1) /\
         \E error \in BOOLEAN : ProcessRepository(j, body, FALSE, error)
  \/ \E j \in JobIds : StoreCommit(j)
  \/ \E j \in JobIds : FindRepository(j)
  \/ \E j \in JobIds : \E latestSha \in 1..MaxCommit : LatestSha(j, latestSha)
  \/ \E j \in JobIds : StoreSha(j)
  \/ \E j \in JobIds : Job(j).pc = "fetch" /\
       \E parsed \in TrackBatches(Head(Job(j).todo)) : FetchNext(j, parsed)
  \/ \E j \in JobIds : SaveChannels(j)
  \/ SaveSteps
  \/ \E j \in JobIds : Job(j).pc = "read" /\
       \E sortedChannels \in SortedOrders(RowsFor(Head(Job(j).todo))) :
         TestSource(j, sortedChannels)
  \/ \E j \in JobIds : \E net \in TrackNets :
       \E testedAt \in Now(Job(j)) : Probe(j, net, testedAt)
  \/ \E j \in JobIds : SaveResult(j)
  \/ \E j \in JobIds : PatchTested(j)
  \/ \E j \in JobIds : \E calculatedAt \in Now(Job(j)) : SaveMetrics(j, calculatedAt)
  \/ \E j \in JobIds : \E lastTested \in Now(Job(j)) : Caught(j, lastTested)
  \/ \E j \in JobIds : Job(j).n <= MaxFaultyOps /\ FetchFails(j)
  \/ \E j \in JobIds : Job(j).n <= MaxFaultyOps /\ StorageFails(j)
  \/ \E j \in JobIds : Job(j).n <= MaxFaultyOps /\ ShaFails(j)
  \/ \E j \in JobIds : \E route \in TrackRoutes :
       Arrives(j, route, MaxFaultyOps, 1) /\ ReadFails(j, route)

SpecTrack == Init /\ [][NextTrack]_vars

\* ---- the handlers that fetch every tracked repository, and the webhook
MaxHandlerOps == 2  \* requests per behaviour
MaxFetchOps == 1    \* the requests of a behaviour, from its first, that fetch every repository

HandlerRoutes == {"force-fetch", "populate", EnrichedRoute}

NextHandlers ==
  \/ \E j \in JobIds : Arrives(j, "force-fetch", MaxFetchOps, 1) /\
       \E tracked \in RowOrders(tracker.repositories) : ForceFetch(j, tracked)
  \/ \E j \in JobIds : Job(j).pc = "reload" /\
       \E tracked \in RowOrders(tracker.repositories) : ReloadTracked(j, tracked)
  \/ \E j \in JobIds : Arrives(j, "populate", MaxFetchOps, 1) /\
       \E tracked \in RowOrders(tracker.repositories) : Populate(j, tracked)
  \/ \E j \in JobIds : Arrives(j, EnrichedRoute, MaxFetchOps, 1) /\
       \E tracked \in RowOrders(tracker.repositories) : PopulateEnriched(j, tracked)
  \/ \E repo \in Sources, ref \in Branches, commitSha \in 1..MaxCommit :
       jobs.n < MaxHandlerOps /\ tracker.posted = {} /\ Webhook(repo, ref, commitSha)
  \/ \E body \in tracker.posted : DropJob(body)
  \/ \E j \in JobIds : \E body \in tracker.posted :
       Arrives(j, "process-repository", MaxHandlerOps, 1) /\
         \E error \in BOOLEAN : ProcessRepository(j, body, TRUE, error)
  \/ \E j \in JobIds : StoreCommit(j)
  \/ \E j \in JobIds : FindRepository(j)
  \/ \E j \in JobIds : \E latestSha \in 1..MaxCommit : LatestSha(j, latestSha)
  \/ \E j \in JobIds : StoreSha(j)
  \/ \E j \in JobIds : Job(j).pc = "fetch" /\
       \E parsed \in TrackBatches(Head(Job(j).todo)) : FetchNext(j, parsed)
  \/ \E j \in JobIds : SaveChannels(j)
  \/ SaveSteps
  \/ \E j \in JobIds : Job(j).pc = "read" /\
       \E sortedChannels \in SortedOrders(RowsFor(Head(Job(j).todo))) :
         TestSource(j, sortedChannels)
  \/ \E j \in JobIds : \E net \in TrackNets :
       \E testedAt \in Now(Job(j)) : Probe(j, net, testedAt)
  \/ \E j \in JobIds : SaveResult(j)
  \/ \E j \in JobIds : PatchTested(j)
  \/ \E j \in JobIds : \E calculatedAt \in Now(Job(j)) : SaveMetrics(j, calculatedAt)
  \/ \E j \in JobIds : \E lastTested \in Now(Job(j)) : Caught(j, lastTested)
  \/ \E j \in JobIds : \E net \in TrackNets :
       \E calculatedAt \in Now(Job(j)), testedAt \in Now(Job(j)) :
         EnrichProbe(j, net, calculatedAt, testedAt)
  \/ \E j \in JobIds : \E calculatedAt \in Now(Job(j)) : EnrichPatch(j, calculatedAt)
  \/ \E j \in JobIds : EnrichSaveResult(j)
  \/ \E j \in JobIds : EnrichSaveMetrics(j)
  \/ \E j \in JobIds : Job(j).n <= MaxFaultyOps /\
       \E calculatedAt \in Now(Job(j)) : EnrichFails(j, calculatedAt)
  \/ \E j \in JobIds : Job(j).n <= MaxFaultyOps /\ FetchFails(j)
  \/ \E j \in JobIds : Job(j).n <= MaxFaultyOps /\ StorageFails(j)
  \/ \E j \in JobIds : Job(j).n <= MaxFaultyOps /\ ShaFails(j)
  \/ \E j \in JobIds : \E route \in HandlerRoutes :
       Arrives(j, route, MaxFaultyOps, 1) /\ ReadFails(j, route)

SpecHandlers == Init /\ [][NextHandlers]_vars

\* ---- the pipeline with a failing storage collaborator
MaxFaultOps == 2    \* requests per behaviour when storage calls may fail

\* the routes of this specification whose handler starts with a read
FaultRoutes == {"post", "test-streams", "reset-tests", "calculate-metrics",
                ValidatedRoute, "init", ValidatedInit}

\* the metrics of what two requests stored can be calculated by a third
NextFault ==
  \/ \E j \in JobIds : Arrives(j, "post", MaxFaultOps, 1) /\
       \E source \in Sources : \E items \in PipelineBatches(source) :
         PostChannels(j, source, items)
  \/ SaveSteps
  \/ \E j \in JobIds : Arrives(j, "test-streams", MaxFaultOps, 1) /\
       \E limit \in 1..MaxLimit, sourceParam \in Sources \cup {"all"} :
         \E sortedChannels \in SortedOrders(RowsFor(sourceParam)) :
           TestStreams(j, limit, sourceParam, sortedChannels)
  \/ TestSteps
  \/ \E j \in JobIds : \E lastTested \in Now(Job(j)) : Caught(j, lastTested)
  \/ \E j \in JobIds : Arrives(j, "reset-tests", MaxFaultOps, 1) /\ ResetTests(j)
  \/ \E j \in JobIds : \E id \in Job(j).ids : ResetNext(j, id)
  \/ \E j \in JobIds : Arrives(j, "calculate-metrics", MaxFaultOps + 1, 1) /\
       CalculateMetrics(j)
  \/ \E j \in JobIds : Arrives(j, ValidatedRoute, MaxFaultOps + 1, 1) /\
       CalculateMetricsValidated(j)
  \/ \E j \in JobIds : \E id \in Job(j).ids : ReadResults(j, id)
  \/ \E j \in JobIds : \E calculatedAt \in Now(Job(j)) : SaveMetricsOf(j, calculatedAt)
  \/ \E j \in JobIds : Arrives(j, "init", MaxFaultOps + 1, 1) /\ InitDatabase(j)
  \/ \E j \in JobIds : Arrives(j, ValidatedInit, MaxFaultOps + 1, 1) /\
       InitDatabaseValidated(j)
  \/ \E j \in JobIds : \E error \in PeekErrors : PeekResults(j, error)
  \/ \E j \in JobIds : ValidateTables(j)
  \/ \E j \in JobIds : Arrives(j, "clean-database", MaxFaultOps + 1, 1) /\
       CleanDatabase(j)
  \/ \E j \in JobIds : Job(j).pc = "select" /\
       \E ids \in Batches(Head(Job(j).todo)) : SelectRows(j, ids)
  \/ \E j \in JobIds : DeleteRows(j)
  \/ \E j \in JobIds : StorageFails(j)
  \/ \E j \in JobIds : \E route \in FaultRoutes :
       Arrives(j, route, MaxFaultOps, 1) /\ ReadFails(j, route)

SpecFault == Init /\ [][NextFault]_vars

\* ---- SSE clients polling the audit log while channels are posted
MaxPollOps == 2     \* requests per behaviour while the clients poll

\* the payloads posted while the clients poll
PollBatches == {<<buildChannel(1, "s1")>>, <<buildChannel(1, "s1"), buildChannel(2, "s1")>>}

NextPoll ==
  \/ \E c \in ClientIds : Connect(c)
  \/ \E j \in JobIds : Arrives(j, "post", MaxPollOps, 1) /\
       \E items \in PollBatches : PostChannels(j, "s1", items)
  \/ SaveSteps
  \/ \E c \in ClientIds : Abort(c)
  \/ \E c \in ClientIds, p \in PollIds, error \in BOOLEAN : ReadUpdates(c, p, error)
  \/ \E p \in PollIds : SendEvent(p)
  \/ \E p \in PollIds, error \in BOOLEAN : SelectIds(p, error)
  \/ \E p \in PollIds, error \in BOOLEAN : MarkProcessed(p, error)
  \/ \E j \in JobIds : Arrives(j, "clean-database", MaxPollOps, 1) /\ CleanDatabase(j)
  \/ \E j \in JobIds : Job(j).pc = "select" /\
       \E ids \in Batches(Head(Job(j).todo)) : SelectRows(j, ids)
  \/ \E j \in JobIds : DeleteRows(j)

SpecPoll == Init /\ [][NextPoll]_vars

\* ---- repeated test cycles, no re-ingestion
MaxCycles == 3      \* test cycles per behaviour after the one ingestion

\* the one ingestion, into the empty store
FirstIngestion(j, source, items) ==
  /\ jobs.n = 0
  /\ Len(items) > 0
  /\ PostChannels(j, source, items)

\* the scheduler starts one more cycle over all channels, with the limit of
\* the cycles before
RepeatedTestCycle(j, limit, sortedChannels) ==
  /\ InFlight = {}
  /\ j = 1
  /\ channels # << >>
  /\ jobs.n <= MaxCycles
  /\ last.kind = "test" => limit = last.limit
  /\ TestStreams(j, limit, "all", sortedChannels)

NextCycles ==
  \/ \E j \in JobIds : \E source \in Sources : \E items \in RepositoryBatches(source) :
       FirstIngestion(j, source, items)
  \/ \E j \in JobIds : UpsertNext(j)
  \/ \E j \in JobIds : \E timestamp \in Now(Job(j)) : AppendAudit(j, timestamp)
  \/ \E j \in JobIds : \E limit \in 1..MaxLimit :
       \E sortedChannels \in SortedOrders(getAllChannels(channels)) :
         RepeatedTestCycle(j, limit, sortedChannels)
  \/ TestSteps

SpecCycles == Init /\ [][NextCycles]_vars

\* ---- StreamTester.testChannel, step by step (one step per await)
ProbeChannels ==
  {buildChannel(i, "s1") : i \in Ids}
    \cup {Channel(1, "n1", AltUrl(1), "untested", "s1", 0, NoTime),
          Channel(2, "n1", PathUrl(2), "untested", "s1", 0, NoTime)}

ProbeOptions == [region : Regions]

\* testChannel is called: it notes the time and awaits checkStreamAvailability,
\* which issues the HEAD request
StartProbe(channel, options) ==
  /\ probe.pc = "idle"
  /\ probe' = [pc |-> "head", channel |-> channel, options |-> options,
               testedAt |-> clock, requests |-> <<"HEAD">>,
               timer |-> "armed", stalled |-> FALSE,
               head |-> [kind |-> "pending", status |-> 0],
               get |-> [kind |-> "pending", status |-> 0],
               text |-> [kind |-> "pending", lines |-> <<>>],
               result |-> TestResult(channel, "pending", 0, Unknown, clock, "pending")]
  /\ UNCHANGED <<store, call>>

\* How the operation in flight can settle: the abort of controller.abort() needs
\* the timer of setTimeout to be pending still, and a server that has stalled
\* sends nothing more, so that only the abort can end the wait.
Settles(kind) ==
  /\ kind = "timeout" => probe.timer = "armed"
  /\ probe.stalled => kind = "timeout"

\* clearTimeout(timeoutId) runs when fetch resolved, not when it rejected
TimerAfter(kind) == IF kind = "response" THEN "cleared" ELSE probe.timer

\* the remote server stops sending: before the response headers of the HEAD or of
\* the GET, or while the body is read
Stalls ==
  /\ probe.pc \in {"head", "get", "text"}
  /\ ~probe.stalled
  /\ probe' = [probe EXCEPT !.stalled = TRUE]
  /\ UNCHANGED <<store, call>>

\* the HEAD fetch settles; testChannel returns or awaits testPlaylistStream,
\* which issues the GET request
HeadSettles(head) ==
  /\ probe.pc = "head"
  /\ Settles(head.kind)
  /\ LET region == RegionOf(probe.options)
         settled == [probe EXCEPT !.head = head, !.stalled = FALSE,
                                  !.timer = TimerAfter(head.kind)]
     IN probe' =
          IF ~checkStreamAvailability(head).success
            THEN [settled EXCEPT !.pc = "done",
                    !.result = UnavailableResult(probe.channel, probe.testedAt, region)]
          ELSE IF LooksLikePlaylist(probe.channel.url)
            THEN [settled EXCEPT !.pc = "get", !.requests = Append(@, "GET"),
                                 !.timer = "armed"]
          ELSE [settled EXCEPT !.pc = "done",
                  !.result = AccessibleResult(probe.channel, probe.testedAt, region)]
  /\ UNCHANGED <<store, call>>

\* the GET fetch settles; testPlaylistStream returns or awaits response.text()
GetSettles(get) ==
  /\ probe.pc = "get"
  /\ Settles(get.kind)
  /\ LET region == RegionOf(probe.options)
         settled == [probe EXCEPT !.get = get, !.stalled = FALSE,
                                  !.timer = TimerAfter(get.kind)]
     IN probe' =
          IF get.kind = "response" /\ ResponseOk(get.status)
            THEN [settled EXCEPT !.pc = "text"]
            ELSE [settled EXCEPT !.pc = "done",
                    !.result = PlaylistResult(probe.channel, testPlaylistStreamFetched(get),
                                              probe.testedAt, region)]
  /\ UNCHANGED <<store, call>>

\* response.text() settles; testPlaylistStream and testChannel return
TextSettles(text) ==
  /\ probe.pc = "text"
  /\ Settles(text.kind)
  /\ probe' = [probe EXCEPT !.text = text, !.pc = "done", !.stalled = FALSE,
                 !.result = PlaylistResult(probe.channel, testPlaylistStreamRead(text),
                                           probe.testedAt, RegionOf(probe.options))]
  /\ UNCHANGED <<store, call>>

NextProbe ==
  \/ \E channel \in ProbeChannels, options \in ProbeOptions : StartProbe(channel, options)
  \/ \E head \in FetchOutcomes : HeadSettles(head)
  \/ \E get \in FetchOutcomes : GetSettles(get)
  \/ \E text \in TextOutcomes : TextSettles(text)
  \/ Stalls

SpecProbe == Init /\ [][NextProbe]_vars

\* the event loop runs the continuation of every promise that settled and every
\* timer that is due
SpecProbeFair == SpecProbe /\ WF_vars(NextProbe)

\* ------------------------------------------------------ playlist parser
\* Text is a sequence of pieces; text whose letters matter (country codes, file
\* paths) is a sequence of characters. " " is white space.
Trim(text) ==
  LET keep == {k \in DOMAIN text : text[k] # " "}
  IN IF keep = {} THEN <<>>
     ELSE SubSeq(text, CHOOSE k \in keep : \A j \in keep : k <= j,
                       CHOOSE k \in keep : \A j \in keep : j <= k)

LowerLetters == <<"a", "b", "c", "d", "e", "f", "g", "h", "i", "j", "k", "l", "m",
                  "n", "o", "p", "q", "r", "s", "t", "u", "v", "w", "x", "y", "z">>
UpperLetters == <<"A", "B", "C", "D", "E", "F", "G", "H", "I", "J", "K", "L", "M",
                  "N", "O", "P", "Q", "R", "S", "T", "U", "V", "W", "X", "Y", "Z">>

IsLower(c) == \E k \in DOMAIN LowerLetters : LowerLetters[k] = c
IsUpper(c) == \E k \in DOMAIN UpperLetters : UpperLetters[k] = c
IsLetter(c) == IsLower(c) \/ IsUpper(c)

\* String.prototype.toUpperCase / toLowerCase
toUpperCase(text) ==
  [k \in DOMAIN text |->
     IF IsLower(text[k])
       THEN UpperLetters[CHOOSE j \in DOMAIN LowerLetters : LowerLetters[j] = text[k]]
       ELSE text[k]]

toLowerCase(text) ==
  [k \in DOMAIN text |->
     IF IsUpper(text[k])
       THEN LowerLetters[CHOOSE j \in DOMAIN UpperLetters : UpperLetters[j] = text[k]]
       ELSE text[k]]

\* text has part at position k
HasAt(text, part, k) ==
  /\ k >= 1
  /\ k + Len(part) - 1 <= Len(text)
  /\ SubSeq(text, k, k + Len(part) - 1) = part

Undefined == <<>>
UnknownCountry == <<"u", "n", "k", "n", "o", "w", "n">>

\* sha1(url), hex, cut to 16 digits and tagged: different texts get different ids
\* (collisions of the hash are left out)
createChannelId(url) == <<"chn_", url>>

normalizeCountry(value) ==
  IF value = Undefined THEN UnknownCountry ELSE toUpperCase(value)

\* where /[\/\\]([a-z]{2})\.m3u/i matches in the path
FilenameMatches(filePath) ==
  {k \in DOMAIN filePath :
     /\ filePath[k] \in {"/", "\\"}
     /\ k + 2 <= Len(filePath)
     /\ IsLetter(filePath[k + 1]) /\ IsLetter(filePath[k + 2])
     /\ HasAt(toLowerCase(filePath), <<".", "m", "3", "u">>, k + 3)}

\* where /([a-z]{2})[._-]/i matches in the path
PrefixMatches(filePath) ==
  {k \in DOMAIN filePath :
     /\ k + 2 <= Len(filePath)
     /\ IsLetter(filePath[k]) /\ IsLetter(filePath[k + 1])
     /\ filePath[k + 2] \in {".", "_", "-"}}

First(S) == CHOOSE k \in S : \A j \in S : k <= j

\* countryNameMap: every other key contains the key united-kingdom
UnitedStates == <<"u", "n", "i", "t", "e", "d", "-", "s", "t", "a", "t", "e", "s">>
UnitedKingdom == <<"u", "n", "i", "t", "e", "d", "-", "k", "i", "n", "g", "d", "o", "m">>

extractCountryFromPath(filePath) ==
  IF FilenameMatches(filePath) # {}
    THEN toUpperCase(SubSeq(filePath, First(FilenameMatches(filePath)) + 1,
                            First(FilenameMatches(filePath)) + 2))
  ELSE IF PrefixMatches(filePath) # {}
    THEN toUpperCase(SubSeq(filePath, First(PrefixMatches(filePath)),
                            First(PrefixMatches(filePath)) + 1))
  ELSE IF \E k \in DOMAIN filePath : HasAt(toLowerCase(filePath), UnitedStates, k)
    THEN <<"U", "S">>
  ELSE IF \E k \in DOMAIN filePath : HasAt(toLowerCase(filePath), UnitedKingdom, k)
    THEN <<"G", "B">>
  ELSE Undefined

\* A playlist line: its text in pieces, and the value of its tvg-country="..."
\* attribute (Undefined without one), which parseAttributes finds.
PlaylistLine(text, country) == [text |-> text, country |-> country]

ExtInf(country, rest) == PlaylistLine(<<"#EXTINF:", "-1">> \o rest, country)

PlaylistLines ==
  {ExtInf(Undefined, <<",", "Demo">>),
   ExtInf(<<"u", "s", "a">>, <<",", "Demo", " ">>),
   ExtInf(<<"c", "a">>, <<",", "Demo">>),
   ExtInf(Undefined, <<",">>),
   ExtInf(Undefined, <<" ", "Demo">>),
   PlaylistLine(<<"http://host/a.ts">>, Undefined),
   PlaylistLine(<<"http://host/a.ts", " ">>, Undefined),
   PlaylistLine(<<"#EXTM3U">>, Undefined),
   PlaylistLine(<<>>, Undefined)}

MaxPlaylistLines == 4   \* longest playlist, in lines

Playlists == UNION {[1..n -> PlaylistLines] : n \in 0..MaxPlaylistLines}

\* origin paths: none, streams/us.m3u, usa.m3u, 1/2.m3u, ab-x/us.M3U
FilePaths ==
  {Undefined,
   <<"s", "t", "r", "e", "a", "m", "s", "/", "u", "s", ".", "m", "3", "u">>,
   <<"u", "s", "a", ".", "m", "3", "u">>,
   <<"1", "/", "2", ".", "m", "3", "u">>,
   <<"a", "b", "-", "x", "/", "u", "s", ".", "M", "3", "U">>}

\* line.startsWith('#EXTINF:') and line.startsWith('#')
StartsWithExtInf(line) == line.text # <<>> /\ line.text[1] = "#EXTINF:"
StartsWithHash(line) == line.text # <<>> /\ line.text[1] \in {"#EXTINF:", "#EXTM3U"}

\* infoLine.split(',').pop()
SplitPop(text) ==
  LET commas == {k \in DOMAIN text : text[k] = ","}
  IN IF commas = {} THEN text
     ELSE SubSeq(text, (CHOOSE k \in commas : \A j \in commas : j <= k) + 1, Len(text))

\* buildChannel(attributes, name, url, source, filePath)
buildChannelOfEntry(infoLine, name, url, source, filePath) ==
  LET countryFromPath == IF filePath # Undefined THEN extractCountryFromPath(filePath)
                         ELSE Undefined
  IN [id |-> createChannelId(url),
      name |-> Trim(name),
      url |-> Trim(url),
      country |-> normalizeCountry(IF infoLine.country # Undefined THEN infoLine.country
                                   ELSE countryFromPath),
      qualityScore |-> 0,
      status |-> "untested",
      source |-> source]

\* the loop of parseM3U from line i on: the metadata lines it builds a channel of
RECURSIVE EntriesFrom(_, _)
EntriesFrom(content, i) ==
  IF i > Len(content) THEN <<>>
  ELSE LET rest == EntriesFrom(content, i + 1)
           infoLine == content[i]
           nameMatch == SplitPop(infoLine.text)
       IN IF ~StartsWithExtInf(infoLine) THEN rest
          ELSE IF i + 1 > Len(content) \/ content[i + 1].text = <<>>
                  \/ StartsWithHash(content[i + 1]) THEN rest
          ELSE IF nameMatch = <<>> THEN rest
          ELSE <<i>> \o rest

parseM3U(content, source, filePath) ==
  LET entries == EntriesFrom(content, 1)
  IN [k \in DOMAIN entries |->
        buildChannelOfEntry(content[entries[k]], SplitPop(content[entries[k]].text),
                            content[entries[k] + 1].text, source, filePath)]

\* one call of parseM3U
ParseM3U(content, source, filePath) ==
  /\ call = NoCall
  /\ call' = [fn |-> "parseM3U", content |-> content, source |-> source,
              filePath |-> filePath, result |-> parseM3U(content, source, filePath)]
  /\ UNCHANGED <<store, probe>>

NextParse ==
  /\ call = NoCall
  /\ \E content \in Playlists, source \in Sources, filePath \in FilePaths :
       ParseM3U(content, source, filePath)

SpecParse == Init /\ [][NextParse]_vars

\* ------------------------------------------------------ scorer calls
\* The results handed to the scorer: those of one channel, as testChannel
\* builds them and as a row of test_results holds them. 1450 kbps is a bitrate
\* whose scaled value the double arithmetic of the scorer rounds downwards.
Measurements ==
  {<<"failure", 0, Unknown>>,
   <<"success", 0, Unknown>>,
   <<"success", 1450, Res(1280, 720)>>,
   <<"success", 2000, Res(1280, 720)>>,
   <<"success", 2500, Res(854, 480)>>,
   <<"success", 4000, Res(1280, 720)>>,
   <<"success", 8000, Res(1920, 1080)>>,
   <<"success", 20000, Res(3840, 2160)>>}

ResultRegions == {DefaultRegion, "eu", "us"}

ScoredResults ==
  {TestResult([id |-> 1], m[1], m[2], m[3], 1, region) :
     m \in Measurements, region \in ResultRegions}

MaxResults == 3   \* longest result list handed to the scorer

ResultLists == UNION {[1..n -> ScoredResults] : n \in 0..MaxResults}

\* one more call of the scorer on the same results
Run(runs, results, now) == Append(runs, calculateQualityMetrics(results, now))

\* a call of calculateQualityMetrics; time may pass before the next one
Calculate(results, elapsed) ==
  /\ call = NoCall
  /\ call' = [fn |-> "calculateQualityMetrics", results |-> results,
              runs |-> Run(<<>>, results, clock), times |-> <<clock>>]
  /\ clock' = clock + elapsed
  /\ UNCHANGED <<channels, testResults, qualityMetrics, repositoryUpdates, last, pre,
                 probe, missing, jobs, tracker, sse>>

\* the second call, on the same results
CalculateAgain ==
  /\ call.fn = "calculateQualityMetrics"
  /\ Len(call.runs) = 1
  /\ call' = [call EXCEPT !.runs = Run(@, call.results, clock),
                          !.times = Append(@, clock)]
  /\ UNCHANGED store
  /\ UNCHANGED probe

NextScore ==
  \/ /\ call = NoCall
     /\ \E results \in ResultLists, elapsed \in {0, 1} : Calculate(results, elapsed)
  \/ CalculateAgain

SpecScore == Init /\ [][NextScore]_vars

\* ---------------------------------------------------- inspector calls
\* manifest lines handed to the inspector: those of the probes; variant streams
\* whose bandwidth is not near a multiple of 1000; lines whose resolution is
\* written with capitals (RESOLUTION=1280X720, 1280X720 and 1080P in a per-entry
\* line), alone and before or after a token in small letters; a per-entry line
\* that names 640x360 before 1080p; and resolutions that hold one of the table
\* inside a longer one
InspectedLines ==
  ManifestLines \cup {VariantLine(400, <<>>),
                      VariantLine(1500, <<>>),
                      VariantLine(2999, <<Res(854, 480)>>),
                      VariantLine(-1, <<ResX(1280, 720)>>),
                      EntryLine(<<ResX(1280, 720)>>),
                      EntryLine(<<PixelsP(1080)>>),
                      EntryLine(<<Res(640, 360), Pixels(1080)>>),
                      EntryLine(<<ResX(1280, 720), Pixels(480)>>),
                      EntryLine(<<PixelsP(1080), Res(426, 240)>>),
                      EntryLine(<<Res(11920, 10800)>>),
                      EntryLine(<<Res(1280, 7200)>>)}

InspectedBodies == UNION {[1..n -> InspectedLines] : n \in 0..MaxLines}

\* the values of bitrateKbps and resolution when parsePlaylistInfo starts
NoInfo == [bitrateKbps |-> 0, resolution |-> Unknown]

\* one call of parsePlaylistInfo; scan[k] holds the values of bitrateKbps and
\* resolution at the end of the iteration of line k
Inspect(playlistContent) ==
  /\ call = NoCall
  /\ call' = [fn |-> "parsePlaylistInfo", playlistContent |-> playlistContent,
              scan |-> [k \in DOMAIN playlistContent |->
                          ScanLines(NoInfo, SubSeq(playlistContent, 1, k))],
              result |-> parsePlaylistInfo(playlistContent)]
  /\ UNCHANGED <<store, probe>>

NextInspect == \E playlistContent \in InspectedBodies : Inspect(playlistContent)

SpecInspect == Init /\ [][NextInspect]_vars

\* ============================================================ properties
\* The operation that ended last is `last`, and it found the tables as `pre`
\* holds them. It ran alone when it did not fail and no other operation has
\* written a table since it read them.
RanAlone == ~last.failed /\ last.others = {}

\* What the last saveChannels found and was given.
Existing == getChannelsBySource(pre.channels, last.source)
ExistingIds == {c.id : c \in Existing}
Incoming == last.incoming
Absent == {c \in Existing : c.id \notin IncomingIds(Incoming)}

\* the stored channel and the incoming channel of one id agree in url and status
Unchanged(id) ==
  \A k \in DOMAIN Incoming :
    Incoming[k].id = id => /\ pre.channels[id].url = Incoming[k].url
                           /\ pre.channels[id].status = Incoming[k].status

\* the batch is {A,B}, two different channels
BatchAB == Len(Incoming) = 2 /\ Cardinality(IncomingIds(Incoming)) = 2

\* saveChannels ran with the batch {A,B} on a source that stored {A,C}, A unchanged
StoredAC ==
  /\ last.kind = "save"
  /\ RanAlone
  /\ BatchAB
  /\ \E a \in IncomingIds(Incoming), c \in Ids \ IncomingIds(Incoming) :
       ExistingIds = {a, c} /\ Unchanged(a)

\* saveChannels ran again with the batch {A,B} on the stored {A,B,C(inactive)}
StoredABC ==
  /\ last.kind = "save"
  /\ last.repeat
  /\ RanAlone
  /\ BatchAB
  /\ IncomingIds(Incoming) \subseteq ExistingIds
  /\ Cardinality(Absent) = 1
  /\ \A c \in Absent : c.status = "inactive"

FirstPassCounts ==
  StoredAC => /\ last.added = 1 /\ last.updated = 0 /\ last.removed = 1
              /\ \A c \in Absent : c.id \in DOMAIN channels
                                   /\ channels[c.id].status = "inactive"

\* C1 as stated: {A,B} against {A,C} records added=1, updated=0, removed=1 and C
\* becomes inactive; the same batch again records added=0, updated=0, removed=0.
C1_Original ==
  /\ FirstPassCounts
  /\ StoredABC => last.added = 0 /\ last.updated = 0 /\ last.removed = 0

\* C1 amended: {A,B} against {A,C} records added=1, updated=0, removed=1 and C
\* becomes inactive; the same batch again, against {A,B,C(inactive)}, records
\* added=0, updated=0 and removed=1, because C is still stored for the source and
\* still absent from the batch, and C stays inactive.
C1_Theorem ==
  /\ FirstPassCounts
  /\ StoredABC => /\ last.added = 0 /\ last.updated = 0 /\ last.removed = 1
                  /\ \A c \in Absent : c.id \in DOMAIN channels
                                       /\ channels[c.id].status = "inactive"

\* the second pass has run, and the record of the first pass is the one before
C1_Witness ==
  /\ StoredABC
  /\ pre.repositoryUpdates # <<>>
  /\ pre.repositoryUpdates[Len(pre.repositoryUpdates)].channelsAdded = 1
  /\ pre.repositoryUpdates[Len(pre.repositoryUpdates)].channelsRemoved = 1

\* every channel of the batch carries the reconciled source, and entries of the
\* same id agree in url and status
WellFormed ==
  /\ \A k \in DOMAIN Incoming : Incoming[k].source = last.source
  /\ \A j, k \in DOMAIN Incoming :
       Incoming[j].id = Incoming[k].id => /\ Incoming[j].url = Incoming[k].url
                                          /\ Incoming[j].status = Incoming[k].status

\* the last saveChannels was the second of two in a row with the same batch
SecondRun == last.kind = "save" /\ last.repeat /\ ~last.failed

\* C2 as stated: for every source and every batch, duplicates included, the second
\* of two saveChannels in a row with the same batch records added=0 and updated=0.
C2_Original == SecondRun => last.added = 0 /\ last.updated = 0

\* C2 amended: the second of two saveChannels in a row with the same batch records
\* added=0 and updated=0 when every channel of the batch carries the reconciled
\* source and the entries that share an id share their url and status.
C2_Theorem == SecondRun /\ WellFormed => last.added = 0 /\ last.updated = 0

C2_Witness ==
  /\ SecondRun
  /\ WellFormed
  /\ \E j, k \in DOMAIN Incoming : j # k /\ Incoming[j].id = Incoming[k].id
                                   /\ Incoming[j] # Incoming[k]

\* the clean-database wipe has deleted rows since the last operation read
Wiped == last.kind = "clean" \/ "clean" \in last.others

\* C3: saveChannels, a test cycle, reset-tests, the init handler and the metrics
\* calculation, one after the other or two at once, keep every stored channel
\* id stored, and a channel of the source that is missing from the batch of a
\* saveChannels is stored with status inactive when the call returns.
C3_Theorem ==
  /\ ~Wiped => DOMAIN pre.channels \subseteq DOMAIN channels
  /\ last.kind = "save" /\ RanAlone
       => \A c \in Absent : c.id \in DOMAIN channels
                            /\ channels[c.id].status = "inactive"
  /\ \A j \in JobIds : \A p \in Job(j).softDeleted \cup last.softDeleted :
       p.after.status = "inactive"

C3_Witness ==
  /\ last.kind = "save"
  /\ RanAlone
  /\ \E c \in Absent : /\ c.status # "inactive"
                        /\ c.id \in DOMAIN channels
                        /\ channels[c.id].status = "inactive"

\* the entry that is the last one of its id in the batch
IsLastOfId(k) == \A j \in DOMAIN Incoming : j > k => Incoming[j].id # Incoming[k].id

\* C4 as stated: after saveChannels every incoming entry is stored as it came, in
\* every field, and getChannelsBySource(source) returns every incoming channel.
C4_Original ==
  last.kind = "save" /\ RanAlone =>
    \A k \in DOMAIN Incoming :
      /\ Incoming[k].id \in DOMAIN channels
      /\ channels[Incoming[k].id] = Incoming[k]
      /\ \E c \in getChannelsBySource(channels, last.source) : c = Incoming[k]

\* C4 amended: after saveChannels, for every incoming id the stored record equals,
\* in every field, the last entry of the batch with that id, whatever was stored
\* before; getChannelsBySource(source) returns those of these entries whose source
\* field is the reconciled source.
C4_Theorem ==
  last.kind = "save" /\ RanAlone =>
    \A k \in DOMAIN Incoming :
      IsLastOfId(k) =>
        /\ Incoming[k].id \in DOMAIN channels
        /\ channels[Incoming[k].id] = Incoming[k]
        /\ Incoming[k].source = last.source
             => \E c \in getChannelsBySource(channels, last.source) : c = Incoming[k]

C4_Witness ==
  /\ last.kind = "save"
  /\ RanAlone
  /\ \E k \in DOMAIN Incoming :
       /\ IsLastOfId(k)
       /\ Incoming[k].id \in DOMAIN pre.channels
       /\ pre.channels[Incoming[k].id] # Incoming[k]
       /\ channels[Incoming[k].id] = Incoming[k]

\* the soft deletes of the saveChannels calls that ended last or are in
\* progress: the row as it was stored when the upsert of the second loop
\* arrived, and the row the upsert left
SoftDeletes == last.softDeleted \cup UNION {Job(j).softDeleted : j \in JobIds}

\* C5: a channel that saveChannels soft-deletes changes in status only, which
\* becomes inactive: its qualityScore, lastTested, url, name, country, category
\* and source stay as they were stored.
C5_Original ==
  \A p \in SoftDeletes : p.after = [p.before EXCEPT !.status = "inactive"]

\* what the audit trail promises to keep of a record
AuditFields(u) ==
  <<u.id, u.repository, u.message, u.channelsAdded, u.channelsUpdated, u.channelsRemoved>>

\* the last saveChannels appended one record, with the counts of its pass
OneRecordAppended ==
  last.kind = "save" /\ ~last.failed =>
    /\ ~Wiped =>
         /\ Cardinality({k \in DOMAIN repositoryUpdates :
                           repositoryUpdates[k].id = last.appended}) = 1
         /\ \A k \in DOMAIN repositoryUpdates :
              repositoryUpdates[k].id = last.appended =>
                AuditFields(repositoryUpdates[k]) =
                  <<last.appended, last.source,
                    <<"Processed ", Len(Incoming), " channels">>,
                    last.added, last.updated, last.removed>>
    /\ last.others \subseteq {"poll"} =>
         Len(repositoryUpdates) = Len(pre.repositoryUpdates) + 1

\* the records the last operation found are still there, as appended
RecordsKept ==
  \A k \in DOMAIN pre.repositoryUpdates :
    \E i \in DOMAIN repositoryUpdates :
      AuditFields(repositoryUpdates[i]) = AuditFields(pre.repositoryUpdates[k])

\* C6 as stated: every saveChannels appends one audit record with its counts, and
\* no later operation changes or removes source, message or counts of a record.
C6_Original == OneRecordAppended /\ RecordsKept

\* C6 amended: every saveChannels appends one audit record with its counts, and no
\* later operation other than the clean-database wipe, which deletes every audit
\* record, changes or removes the source, message or counts of a record.
C6_Theorem == OneRecordAppended /\ (~Wiped => RecordsKept)

\* a saveChannels has appended its record after a poll has marked an earlier one
C6_Witness ==
  /\ last.kind = "save"
  /\ ~Wiped
  /\ \E k \in DOMAIN pre.repositoryUpdates :
       \E i \in DOMAIN repositoryUpdates :
         /\ repositoryUpdates[i].id = pre.repositoryUpdates[k].id
         /\ repositoryUpdates[i].processed
  /\ Len(repositoryUpdates) = Len(pre.repositoryUpdates) + 1

\* ---- the probe
Returned == probe.pc = "done"
HeadSettled == probe.pc \in {"get", "text", "done"}
HeadOk == probe.head.kind = "response" /\ probe.head.status \in 200..399
GetOk == probe.get.kind = "response" /\ probe.get.status \in 200..299
GetIssued == \E k \in DOMAIN probe.requests : probe.requests[k] = "GET"

PlaylistExtensions == {".m3u8", ".m3u"}
\* the URL ends in a playlist extension
ManifestUrl == probe.channel.url[Len(probe.channel.url)] \in PlaylistExtensions

\* what the loop of the inspector leaves of the body that was read, before any
\* default is applied
Found == ScanLines([bitrateKbps |-> 0, resolution |-> Unknown], probe.text.lines)
\* no line of the body is a manifest line
Unparseable == \A k \in DOMAIN probe.text.lines : probe.text.lines[k].tag = "other"

\* C7: a probe that returned has status success or failure, the id of its channel
\* and the region of its caller ("local" when the caller names none), and a probe
\* is never anywhere but waiting for a request or returned.
C7_Theorem ==
  /\ probe.pc \in {"idle", "head", "get", "text", "done"}
  /\ Returned =>
       /\ probe.result.status \in {"success", "failure"}
       /\ probe.result.channelId = probe.channel.id
       /\ probe.result.region = IF probe.options.region = "undefined" THEN "local"
                                ELSE probe.options.region

C7_Witness ==
  /\ Returned
  /\ probe.head.kind = "error"
  /\ probe.options.region = "eu"
  /\ probe.result.status = "failure"
  /\ probe.result.region = "eu"

\* C8: a GET is issued only after the HEAD returned a status in 200..399; after any
\* other end of the HEAD the probe has returned failure, bitrate 0, resolution
\* unknown, and HEAD is the only request it issued.
C8_Theorem ==
  /\ probe.pc # "idle" /\ GetIssued => HeadOk
  /\ HeadSettled /\ ~HeadOk =>
       /\ Returned
       /\ probe.result.status = "failure"
       /\ probe.result.bitrateKbps = 0
       /\ probe.result.resolution = Unknown
       /\ probe.requests = <<"HEAD">>

C8_Witness ==
  /\ Returned
  /\ ManifestUrl
  /\ probe.head.kind = "response" /\ probe.head.status = 404
  /\ probe.result.status = "failure"
  /\ probe.requests = <<"HEAD">>

PlainSuccess ==
  /\ Returned
  /\ probe.result.status = "success"
  /\ probe.result.bitrateKbps = 0
  /\ probe.result.resolution = Unknown
  /\ probe.requests = <<"HEAD">>

\* C9: a URL with a plain file extension and a successful existence check give
\* success, bitrate 0, resolution unknown, and no GET.
C9_Original == HeadSettled /\ ~ManifestUrl /\ HeadOk => PlainSuccess

\* C10 as stated: with a manifest URL and a successful existence check, a non-2xx
\* GET, a timeout or an unparseable body give failure, and success is returned only
\* when the inspector extracted bitrate and resolution, with exactly those values.
C10_Original ==
  Returned /\ ManifestUrl /\ HeadOk =>
    /\ (~GetOk \/ probe.text.kind # "text" \/ Unparseable)
         => probe.result.status = "failure"
    /\ probe.result.status = "success"
         => /\ Found.bitrateKbps # 0 /\ Found.resolution # Unknown
            /\ probe.result.bitrateKbps = Found.bitrateKbps
            /\ probe.result.resolution = Found.resolution

\* C10 amended: with a manifest URL and a successful existence check, the probe
\* returns failure (bitrate 0, resolution unknown) when the GET is rejected, times
\* out or gets a non-2xx response, or when reading the body fails; for every body
\* that was read it returns success with exactly the values the inspector returns
\* for that body, which are what its loop leaves of the body, 1000 kbps in place
\* of a bitrate of 0 and 1280x720 in place of the resolution unknown.
C10_Theorem ==
  Returned /\ ManifestUrl /\ HeadOk =>
    IF GetOk /\ probe.text.kind = "text"
      THEN /\ probe.result.status = "success"
           /\ probe.result.bitrateKbps = parsePlaylistInfo(probe.text.lines).bitrateKbps
           /\ probe.result.resolution = parsePlaylistInfo(probe.text.lines).resolution
           /\ probe.result.bitrateKbps =
                IF Found.bitrateKbps = 0 THEN 1000 ELSE Found.bitrateKbps
           /\ probe.result.resolution =
                IF Found.resolution = Unknown THEN Res(1280, 720) ELSE Found.resolution
           /\ Unparseable => /\ probe.result.bitrateKbps = 1000
                             /\ probe.result.resolution = Res(1280, 720)
      ELSE /\ probe.result.status = "failure"
           /\ probe.result.bitrateKbps = 0
           /\ probe.result.resolution = Unknown

\* a body whose only manifest line is a per-entry line that names 0x0 was read:
\* the probe returned success with the resolution 0x0 and the estimate 1000 kbps
C10_Witness ==
  /\ Returned /\ ManifestUrl /\ HeadOk /\ GetOk
  /\ probe.text.kind = "text"
  /\ probe.text.lines = <<EntryLine(<<Res(0, 0)>>)>>
  /\ probe.result.status = "success"
  /\ probe.result.bitrateKbps = 1000
  /\ probe.result.resolution = Res(0, 0)

\* C11: every probe eventually returns, wherever the remote server stalls: before
\* the response headers of the existence check or of the manifest fetch, or while
\* the manifest body is read.
C11_Original == (probe.pc \in {"head", "get", "text"}) ~> (probe.pc = "done")

\* the channels the last parseM3U call returned
Parsed == IF call.fn = "parseM3U" THEN {call.result[k] : k \in DOMAIN call.result} ELSE {}

\* C12: the id is a deterministic function of the stored url: two channels
\* returned by parseM3U whose url fields are equal have equal ids, and the id
\* is the hash of the trimmed URL, which is the url field.
C12_Original ==
  /\ \A a, b \in Parsed : a.url = b.url => a.id = b.id
  /\ \A c \in Parsed : c.id = createChannelId(c.url)

\* the text after the final comma of a line: empty when the line has no comma
AfterFinalComma(text) == IF \E k \in DOMAIN text : text[k] = "," THEN SplitPop(text) ELSE <<>>

\* the #EXTINF lines the claim counts: followed at once by a non-empty line
\* that does not start with '#', and with a non-empty name after the final comma
ValidEntries(content) ==
  {i \in DOMAIN content :
     /\ StartsWithExtInf(content[i])
     /\ i + 1 \in DOMAIN content
     /\ content[i + 1].text # <<>>
     /\ ~StartsWithHash(content[i + 1])
     /\ AfterFinalComma(content[i].text) # <<>>}

\* C13: parseM3U returns, for every playlist text, exactly one channel for each
\* #EXTINF line that is immediately followed by a non-empty line not starting
\* with '#' and has a non-empty name after its final comma, and no channel for
\* any other entry.
C13_Original ==
  call.fn = "parseM3U" => Len(call.result) = Cardinality(ValidEntries(call.content))

IsAlpha2(value) == Len(value) = 2 /\ IsUpper(value[1]) /\ IsUpper(value[2])

\* C14: the country of every channel returned by parseM3U is exactly two
\* upper-case letters or "unknown", whatever the tvg-country attribute and the
\* origin path.
C14_Original == \A c \in Parsed : IsAlpha2(c.country) \/ c.country = UnknownCountry

\* the records the calls of calculateQualityMetrics returned
Scored == IF call.fn = "calculateQualityMetrics"
            THEN {call.runs[k] : k \in DOMAIN call.runs} ELSE {}

\* the three results of the scorer example; the failed probe ran in one of
\* the two regions
ExampleResults ==
  {<<TestResult([id |-> 1], "success", 8000, Res(1920, 1080), 1, "eu"),
     TestResult([id |-> 1], "failure", 0, Unknown, 1, region),
     TestResult([id |-> 1], "success", 4000, Res(1280, 720), 1, "us")>> :
     region \in {"eu", "us"}}

ExampleComponents(m) ==
  /\ m.uptimePercentage = Frac(200, 3)
  /\ m.stabilityScore = 40
  /\ m.videoQualityScore = 100
  /\ m.geoAvailabilityScore = 67

\* C15 as stated: on the three example results the scorer returns uptime
\* 66.67, stability 40, videoQuality 100, geoAvailability 67 and overallScore 62.
C15_Original ==
  (call.fn = "calculateQualityMetrics" /\ call.results \in ExampleResults) =>
    \A m \in Scored : ExampleComponents(m) /\ m.overallScore = 62

\* C15 amended: on the three example results the scorer returns uptime 66.67,
\* stability 40, videoQuality 100, geoAvailability 67 and overallScore 67.
C15_Theorem ==
  (call.fn = "calculateQualityMetrics" /\ call.results \in ExampleResults) =>
    \A m \in Scored : ExampleComponents(m) /\ m.overallScore = 67

\* the scorer has been called on the example results
C15_Witness ==
  /\ call.fn = "calculateQualityMetrics"
  /\ call.results \in ExampleResults
  /\ Scored # {}

\* the largest height among the WxH resolutions of the results
MaxObservedHeight(results) ==
  SetMax({results[k].resolution.h : k \in DOMAIN results})

\* C16: videoQualityScore is min(100, round(100 * H / 1080)) where H is the
\* largest height (the second number of WxH) among the resolutions of the
\* results, and 0 when no result has a WxH resolution.
C16_Original ==
  \A m \in Scored :
    m.videoQualityScore =
      IF MaxObservedHeight(call.results) > 0
        THEN Min(100, Round(100 * MaxObservedHeight(call.results), 1080))
        ELSE 0

\* C17: for every list of results with non-negative bitrates, the empty list
\* included, the four component scores lie in [0,100] and overallScore is an
\* integer in [0,100] that is the rounded weighted sum of the components, with
\* weights 0.40, 0.25, 0.20 and 0.15 that sum to 1.
C17_Theorem ==
  /\ uptimeWeight + stabilityWeight + qualityWeight + geoWeight = 100
  /\ \A m \in Scored :
       /\ m.uptimePercentage.den > 0
       /\ 0 <= m.uptimePercentage.num
       /\ m.uptimePercentage.num <= 100 * m.uptimePercentage.den
       /\ m.stabilityScore \in 0..100
       /\ m.videoQualityScore \in 0..100
       /\ m.geoAvailabilityScore \in 0..100
       /\ m.overallScore \in 0..100
       /\ m.overallScore =
            MathRound(calculatedScore(
                        UptimePercentage(Frac(m.uptimePercentage.num,
                                              100 * m.uptimePercentage.den).num,
                                         Frac(m.uptimePercentage.num,
                                              100 * m.uptimePercentage.den).den),
                        m.stabilityScore, m.videoQualityScore, m.geoAvailabilityScore,
                        <<uptimeWeight, stabilityWeight, qualityWeight, geoWeight>>))

\* the scorer has been called on three results whose mean bitrate is above
\* 10000 kbps and of which one failed
C17_Witness ==
  /\ call.fn = "calculateQualityMetrics"
  /\ Len(call.results) = 3
  /\ Sum([k \in DOMAIN call.results |-> call.results[k].bitrateKbps]) > 30000
  /\ \E m \in Scored : m.uptimePercentage = Frac(200, 3) /\ m.stabilityScore = 100

\* C18: two calls of the scorer on the same results return records that are
\* identical in every field, calculatedAt included.
C18_Original ==
  (call.fn = "calculateQualityMetrics" /\ Len(call.runs) = 2) =>
    call.runs[1] = call.runs[2]

\* the channels whose metrics row the last operation wrote
MetricsWritten ==
  IF last.kind = "test" THEN {last.targets[k] : k \in DOMAIN last.targets}
  ELSE IF last.kind = "metrics"
    THEN {i \in DOMAIN channels : getTestResults(testResults, i) # <<>>}
  ELSE {}

\* C19: after an operation that writes quality metrics there is one row for
\* each channel it wrote, and the row holds the scores of the scorer applied
\* to all test results stored for that channel so far.
C19_Original ==
  RanAlone =>
    \A i \in MetricsWritten :
      /\ i \in DOMAIN qualityMetrics
      /\ [qualityMetrics[i] EXCEPT !.calculatedAt = NoTime]
           = QualityMetricsRow(calculateQualityMetrics(getTestResults(testResults, i),
                                                       NoTime))

Inspected == call.fn = "parsePlaylistInfo"

\* the variant-stream lines of the inspected manifest that carry a bandwidth
VariantLines ==
  IF Inspected
    THEN {k \in DOMAIN call.playlistContent :
            /\ call.playlistContent[k].tag = "STREAM-INF"
            /\ call.playlistContent[k].bandwidth >= 0}
    ELSE {}

\* v is b / 1000 rounded to the nearest integer, halves upwards
IsNearestKbps(v, b) == 1000 * v <= b + 500 /\ b + 500 < 1000 * (v + 1)

\* the bitrates the inspector assumes: those of the table, and the default
AssumedBitrates == {400, 800, 1500, 2500, 5000, 1000}

\* C20 as stated: for every variant-stream line with BANDWIDTH=b the inspector's
\* bitrateKbps, once it has read the line, is the floor of b / 1000.
C20_Original ==
  \A k \in VariantLines :
    call.scan[k].bitrateKbps = call.playlistContent[k].bandwidth \div 1000

\* C20 amended: for every variant-stream line with BANDWIDTH=b the inspector's
\* bitrateKbps, once it has read the line, is b / 1000 rounded to the nearest
\* integer, halves upwards. The inspector returns the value of the last such
\* line of the manifest when that is 1 or more; when it is 0 (b below 500) it
\* returns an assumed bitrate, one of the table or 1000.
C20_Theorem ==
  /\ \A k \in VariantLines :
       IsNearestKbps(call.scan[k].bitrateKbps, call.playlistContent[k].bandwidth)
  /\ VariantLines # {} =>
       LET b == call.playlistContent[SetMax(VariantLines)].bandwidth
       IN IF b >= 500 THEN IsNearestKbps(call.result.bitrateKbps, b)
          ELSE call.result.bitrateKbps \in AssumedBitrates

\* a manifest of two variant streams was inspected: the bandwidth of the first
\* is below 500, that of the last is rounded upwards
C20_Witness ==
  /\ Cardinality(VariantLines) = 2
  /\ call.playlistContent[1].bandwidth < 500
  /\ call.playlistContent[2].bandwidth % 1000 >= 500
  /\ call.result.bitrateKbps = (call.playlistContent[2].bandwidth \div 1000) + 1

\* the table of assumed bitrates of the statement
TableResolutions ==
  {Res(1920, 1080), Res(1280, 720), Res(854, 480), Res(640, 360), Res(426, 240)}

TableBitrate(resolution) ==
  CASE resolution = Res(1920, 1080) -> 5000
    [] resolution = Res(1280, 720) -> 2500
    [] resolution = Res(854, 480) -> 1500
    [] resolution = Res(640, 360) -> 800
    [] resolution = Res(426, 240) -> 400

TableIsMonotonic ==
  \A a, b \in TableResolutions : a.h <= b.h => TableBitrate(a) <= TableBitrate(b)

\* The resolution a manifest line states, Unknown when it states none. A variant
\* line states the WxH after its first RESOLUTION=, as it is written. A per-entry
\* line states what its leftmost height or WxH token says, whatever follows it:
\* a WxH with a small x states itself, a height with a small p that is one of
\* the five heights of the table states the resolution of that height, and a
\* token with a capital X or P, or any other height, states nothing.
StatedResolution(line) ==
  IF line.tag = "other" \/ line.tokens = <<>> THEN Unknown
  ELSE IF line.tag = "STREAM-INF" THEN line.tokens[1]
  ELSE IF line.tokens[1].x = "x" THEN line.tokens[1]
  ELSE IF line.tokens[1].x = "p" /\ line.tokens[1].h \in {r.h : r \in TableResolutions}
    THEN CHOOSE r \in TableResolutions : r.h = line.tokens[1].h
  ELSE Unknown

\* the resolution known once the first k lines of the body are read
ResolutionAt(body, k) ==
  LET stated == {j \in 1..k : StatedResolution(body[j]) # Unknown}
  IN IF stated = {} THEN Unknown ELSE StatedResolution(body[SetMax(stated)])

\* the per-entry lines at which a resolution is known
EntryLinesWithResolution(body) ==
  {k \in DOMAIN body : body[k].tag = "EXTINF" /\ ResolutionAt(body, k) # Unknown}

\* no bitrate is found: no variant line carries a bandwidth
NoBitrateFound == VariantLines = {}

\* C21 as stated: when no bitrate is found in a manifest but a resolution is
\* determined, by a variant line or by a per-entry line, the inspector returns
\* the table bitrate of that resolution, and the table never decreases when
\* the resolution increases.
C21_Original ==
  /\ TableIsMonotonic
  /\ (/\ Inspected
      /\ NoBitrateFound
      /\ ResolutionAt(call.playlistContent, Len(call.playlistContent)) \in TableResolutions)
     => /\ call.result.resolution
             = ResolutionAt(call.playlistContent, Len(call.playlistContent))
        /\ call.result.bitrateKbps = TableBitrate(call.result.resolution)

\* C21 amended: when no bitrate is found in a manifest (no variant line carries
\* a bandwidth) and a resolution is known at one of its per-entry
\* lines, the inspector returns the table bitrate of the resolution known at
\* the first such line when it is one of the five of the table, and 1000 when
\* its text holds none of the five; the resolution it returns is the one known
\* at the end of the manifest; a per-entry line states what its leftmost height
\* or WxH token says; the table never decreases when the resolution increases.
C21_Theorem ==
  /\ TableIsMonotonic
  /\ (/\ Inspected
      /\ NoBitrateFound
      /\ EntryLinesWithResolution(call.playlistContent) # {})
     => LET k == First(EntryLinesWithResolution(call.playlistContent))
            known == ResolutionAt(call.playlistContent, k)
        IN /\ known \in TableResolutions =>
                call.result.bitrateKbps = TableBitrate(known)
           /\ (\A r \in TableResolutions : ~IncludesResolution(known, r.w, r.h)) =>
                call.result.bitrateKbps = 1000
           /\ call.result.resolution
                = ResolutionAt(call.playlistContent, Len(call.playlistContent))

\* a manifest was inspected whose only line is a per-entry line that names
\* 1080p before 640x360: the inspector returned 5000 kbps and 1920x1080
C21_Witness ==
  /\ Inspected
  /\ call.playlistContent = <<EntryLine(<<Pixels(1080), Res(640, 360)>>)>>
  /\ call.result.bitrateKbps = 5000
  /\ call.result.resolution = Res(1920, 1080)

\* the lines of the body that state a bandwidth or a resolution
UsableLines(body) ==
  {k \in DOMAIN body :
     \/ body[k].tag = "STREAM-INF" /\ body[k].bandwidth >= 0
     \/ StatedResolution(body[k]) # Unknown}

\* C22: for every manifest body the inspector returns a bitrate above 0 and a
\* resolution other than "unknown", and exactly the defaults 1000 kbps and
\* 1280x720 when no line of the body is usable.
C22_Theorem ==
  Inspected =>
    /\ call.result.bitrateKbps > 0
    /\ call.result.resolution # Unknown
    /\ UsableLines(call.playlistContent) = {} =>
         /\ call.result.bitrateKbps = 1000
         /\ call.result.resolution = Res(1280, 720)

\* a manifest with lines, none of them usable, was inspected: a per-entry line
\* whose leftmost token is written with a capital letter is among them
C22_Witness ==
  /\ Inspected
  /\ UsableLines(call.playlistContent) = {}
  /\ \E k \in DOMAIN call.playlistContent :
       /\ call.playlistContent[k].tag = "EXTINF"
       /\ Len(call.playlistContent[k].tokens) = 2
  /\ call.result = [bitrateKbps |-> 1000, resolution |-> Res(1280, 720)]

\* the channels a test cycle chooses from, as they were when it read them
Candidates ==
  {pre.channels[i] : i \in {j \in DOMAIN pre.channels :
                              last.source = "all" \/ pre.channels[j].source = last.source}}

StatusRank(status) ==
  CASE status = "untested" -> 1 [] status = "inactive" -> 2 [] status = "active" -> 3

\* a comes no later than b in the order of the statement
NoLater(a, b) ==
  \/ StatusRank(a.status) < StatusRank(b.status)
  \/ StatusRank(a.status) = StatusRank(b.status) /\ a.lastTested <= b.lastTested

Probed == {pre.channels[last.targets[k]] : k \in DOMAIN last.targets}

\* C23: a test cycle probes the first `limit` of the channels it chooses from,
\* in the order untested, inactive, active and, within a status, least
\* recently tested first; so it leaves no channel unprobed that comes earlier
\* in that order than a probed one. A negative limit is an end counted from
\* the last channel of that order.
C23_Theorem ==
  last.kind = "test" =>
    /\ last.limit >= 0 => Len(last.targets) = Min(last.limit, Cardinality(Candidates))
    /\ last.limit < 0 =>
         Len(last.targets) = Max(Cardinality(Candidates) + last.limit, 0)
    /\ Probed \subseteq Candidates
    /\ \A i, j \in DOMAIN last.targets :
         i < j => /\ last.targets[i] # last.targets[j]
                  /\ NoLater(pre.channels[last.targets[i]], pre.channels[last.targets[j]])
    /\ \A t \in Probed, c \in Candidates \ Probed :
         /\ NoLater(t, c)
         /\ c.status = "untested" => t.status = "untested"
         /\ c.status = "inactive" => t.status # "active"

\* a test cycle probed an untested channel and left an active one unprobed
C23_Witness ==
  /\ last.kind = "test"
  /\ \E t \in Probed, c \in Candidates \ Probed :
       t.status = "untested" /\ c.status = "active"

\* C24 as stated: saveChannels(S, incoming) leaves every stored channel of
\* another source as it was, in every field, whatever the incoming batch.
C24_Original ==
  last.kind = "save" /\ RanAlone =>
    \A i \in DOMAIN pre.channels :
      pre.channels[i].source # last.source =>
        i \in DOMAIN channels /\ channels[i] = pre.channels[i]

\* the channels of the other sources, as the last saveChannels found them
Foreign == {i \in DOMAIN pre.channels : pre.channels[i].source # last.source}

\* C24 amended: saveChannels(S, incoming) leaves every stored channel of
\* another source whose id is not the id of an incoming channel as it was, in
\* every field; a stored channel of another source whose id is the id of an
\* incoming channel is overwritten by the last incoming channel of that id,
\* with every field of it, its URL and its source included.
C24_Theorem ==
  last.kind = "save" /\ RanAlone =>
    \A i \in Foreign :
      /\ i \in DOMAIN channels
      /\ i \notin IncomingIds(Incoming) => channels[i] = pre.channels[i]
      /\ \A k \in DOMAIN Incoming :
           (Incoming[k].id = i /\ IsLastOfId(k)) => channels[i] = Incoming[k]

\* saveChannels ran with a batch that carries the id of one stored channel of
\* another source under another URL, and not the id of a second one, which is
\* not inactive: the first has the incoming URL now
C24_Witness ==
  /\ last.kind = "save"
  /\ RanAlone
  /\ \E i, j \in Foreign :
       /\ \E k \in DOMAIN Incoming :
            Incoming[k].id = i /\ Incoming[k].url # pre.channels[i].url
       /\ channels[i].url # pre.channels[i].url
       /\ j \notin IncomingIds(Incoming)
       /\ pre.channels[j].status # "inactive"

\* the stored channels that were absent from the most recent batch ingested
\* for their source
Missing == DOMAIN missing \cap DOMAIN channels

\* C25 as stated: a channel that was absent from the most recent batch ingested
\* for its source does not have status active.
C25_Original ==
  \A i \in Missing : channels[i].status # "active"

\* C25 amended: a channel that was absent from the most recent batch ingested
\* for its source does not have status active, unless a test cycle whose probe
\* of it succeeded has set it active after that ingestion set it inactive.
C25_Theorem ==
  \A i \in Missing : channels[i].status = "active" => missing[i]

\* a test cycle has set a channel active that was absent from the most recent
\* batch of its source
C25_Witness ==
  \E i \in Missing : missing[i] /\ channels[i].status = "active"

\* the passes of the last test cycle that changed the row of their channel
PatchedPasses ==
  {k \in DOMAIN last.targets : channels[last.targets[k]] # pre.channels[last.targets[k]]}

\* the last operation is a test cycle, and nothing else has written since it
\* read the channels
CycleAlone == last.kind = "test" /\ last.others = {}

\* C26 as stated: a test cycle sets a channel inactive only if the probe of
\* that channel returned failure and active only if it returned success, also
\* when the storage collaborator fails.
C26_Original ==
  CycleAlone =>
    \A k \in PatchedPasses :
      /\ channels[last.targets[k]].status = "inactive" => last.probes[k].status = "failure"
      /\ channels[last.targets[k]].status = "active" => last.probes[k].status = "success"

\* a storage call of pass k failed and the catch block has patched the channel
CaughtPass(k) == last.faults[k] \notin {"none", "patchChannelTwice"}

\* C26 amended: a test cycle sets a channel inactive only if the probe of that
\* channel returned failure or a storage call of its pass failed, and active
\* only if the probe returned success; after a pass in which a storage call
\* failed the channel is inactive, unless the patch of the catch block failed
\* as well, which ends the cycle.
C26_Theorem ==
  CycleAlone =>
    /\ \A k \in PatchedPasses :
         /\ channels[last.targets[k]].status = "inactive" =>
              last.probes[k].status = "failure" \/ last.faults[k] # "none"
         /\ channels[last.targets[k]].status = "active" =>
              last.probes[k].status = "success" /\ ~CaughtPass(k)
    /\ \A k \in DOMAIN last.targets :
         CaughtPass(k) => channels[last.targets[k]].status = "inactive"

\* a pass whose probe succeeded and whose metrics could not be saved
C26_Witness ==
  /\ CycleAlone
  /\ \E k \in PatchedPasses :
       /\ last.faults[k] = "saveQualityMetrics"
       /\ last.probes[k].status = "success"
       /\ channels[last.targets[k]].status = "inactive"

\* the test cycle that ended last probed channel i
ProbedLast(i) ==
  /\ last.kind = "test"
  /\ \E k \in DOMAIN last.targets : last.targets[k] = i

\* What a test cycle reads of the rows of channels: of lastTested the
\* comparator uses only the order, so the times are replaced by their ranks.
TimeRanks(tbl) ==
  LET times == {tbl[i].lastTested : i \in DOMAIN tbl} \ {NoTime}
  IN [i \in DOMAIN tbl |->
        [tbl[i] EXCEPT !.lastTested =
           IF @ = NoTime THEN NoTime
           ELSE Cardinality({t \in times : t <= tbl[i].lastTested})]]

\* A test cycle that ran alone left a stored channel unprobed and the rows
\* of channels as it found them, up to the order of the times. The next cycle
\* with the same limit reads the same rows, chooses the same channels and,
\* when their probes end as before, leaves the same rows again.
CycleRepeats ==
  /\ last.kind = "test" /\ ~last.failed /\ last.others = {}
  /\ InFlight = {}
  /\ TimeRanks(channels) = TimeRanks(pre.channels)
  /\ \E i \in DOMAIN channels : ~ProbedLast(i)

\* C27 as stated: under repeated test cycles with a fixed limit and without
\* re-ingestion, every stored channel is eventually probed again, whatever
\* the outcomes of the probes. So no cycle leaves a channel unprobed and the
\* rows in the state in which the same cycle takes place again.
C27_Original == ~CycleRepeats

\* two saveChannels calls of one source with different batches have run at
\* the same time and both have returned; nothing else has written meanwhile
TwoSavesDone ==
  /\ InFlight = {}
  /\ last.kind = "save"
  /\ last.peer # NoPeer
  /\ ~last.failed
  /\ last.others \subseteq {"save"}
  /\ last.peer.others \subseteq {"save"}
  /\ last.peer.source = last.source
  /\ last.peer.incoming # last.incoming

\* C28: when two saveChannels calls of one source with different batches have
\* run at the same time, the stored channels are those left by running the two
\* calls one after the other, in one of the two orders.
C28_Original ==
  TwoSavesDone =>
    \/ channels = SavedAlone(SavedAlone(last.base, last.source, last.peer.incoming),
                             last.source, last.incoming)
    \/ channels = SavedAlone(SavedAlone(last.base, last.source, last.incoming),
                             last.source, last.peer.incoming)

\* C29: a tracked repository whose latest commit has not been ingested is
\* among the repositories the next checkForUpdates returns, also after a
\* request that only checked and after a fetch or a save that failed.
C29_Original ==
  last.kind = "check" => last.owed \subseteq last.changed

\* the audit records inserted while a client was connected
AppendedWhileConnected ==
  {u \in {repositoryUpdates[k] : k \in DOMAIN repositoryUpdates} :
     \E c \in DOMAIN sse.clients :
       /\ u.id >= sse.clients[c].since
       /\ sse.clients[c].open \/ u.id < sse.clients[c].until}

\* C30: every audit record appended while an SSE client is connected has been
\* sent in an updates event by the time it is marked processed, however the
\* appends and the polls of the clients interleave.
C30_Original ==
  \A u \in AppendedWhileConnected : u.processed => u.id \in sse.sent
====
